---- MODULE Spec2Model ----
(***************************************************************************)
(* Model of the fluid simulator: the parallel solver FluidSolverGPU with   *)
(* its shaders and the FluidCanvasGPU animation loop, and the sequential   *)
(* solver FluidSolver with the FluidCanvas loop.                           *)
(*                                                                         *)
(* Numbers.  A float sample v is held as the integer v * Q (fixed point,   *)
(* resolution 1/Q); every product or quotient is rounded to that           *)
(* resolution by Rnd.  Positions are held in units of 1/Q texel, so the    *)
(* centre of texel i is i*Q + Q/2.  Program constants that are not         *)
(* multiples of 1/Q are kept as exact ratios (0.999 = 999/1000).           *)
(*                                                                         *)
(* Texels.  Every texture is RGBA32F; the model keeps the R and G channels *)
(* of each texel as <<r, g>>.  No shader output in R or G depends on B or  *)
(* A, and the dye colours the model injects have B = 0.                    *)
(***************************************************************************)
EXTENDS Integers, Sequences, FiniteSets, TLC

VARIABLES
    page,        \* which route is mounted: "gpu" (FluidCanvasGPU) or "cpu" (FluidCanvas)
    pc,          \* <<program, index>>: the next pass of the running callback
    iter,        \* index i of the relaxation for-loop the callback is in
    tex,         \* GPU: contents of every texture, by buffer name
    dfb,         \* GPU: the DoubleFramebuffers velocity, density, pressure: [read, write]
    clearColor,  \* GPU: the GL context's clear colour (R, G)
    boundaries,  \* FluidCanvasGPU state `boundaries`
    debugMode,   \* FluidCanvasGPU state `debugMode`
    mouse,       \* FluidCanvasGPU refs isMouseDown, mousePos, lastMousePos, hasSplatted, rgb
    frameCount,  \* FluidCanvasGPU ref frameCount
    massStats,   \* FluidCanvasGPU state massStats
    arr,         \* CPU: the six Float32Arrays of FluidSolver, by name
    events,      \* number of user events so far (bounded by MaxEvents)
    frames,      \* number of animation frames started so far (bounded by MaxFrames)
    stepOps,     \* history: operators executed by the current/last step() call, in order
    frameOps,    \* history: operators executed by the current/last loop() call, in order
    lastPass,    \* history: the last pass: operator, buffers sampled, buffer drawn to
    velDirty,    \* history: operator that changed velocity with no enforceBoundaries since
    massRef,     \* history: total density after the last injection or mask change
    solver       \* the outcome of the solver's constructor: arguments, status, error

vars == <<page, pc, iter, tex, dfb, clearColor, boundaries, debugMode, mouse,
          frameCount, massStats, arr, events, frames, stepOps, frameOps,
          lastPass, velDirty, massRef, solver>>

---------------------------------------------------------------------------
(* Bounds of the model *)

GridW == 4        \* simulation grid width  (SCREEN_RESOLUTION[0], scaled down)
GridH == 4        \* simulation grid height (SCREEN_RESOLUTION[1], scaled down)
MaxEvents == 2    \* user events explored
MaxFrames == 2    \* animation frames explored
GRID_RES == 2     \* resolution of the sequential solver (width = 64, scaled down)
boundaryThickness == 1   \* wall thickness in texels (10 on the full grid, scaled down)

(* Resolution of the fixed-point numbers standing for `precision highp float`: *)
(* Q for velocity, pressure, mask and positions, DQ for dye density           *)
Q == 100
DQ == 10000

(* Program constants *)
FPS == 60                  \* dt = 1 / FPS
FORCE_MULTIPLIER == 5
DiffuseIterations == 20
ProjectIterations == 50
MassEvery == 15

---------------------------------------------------------------------------
(* Arithmetic *)

Abs(n) == IF n < 0 THEN -n ELSE n
Max(a, b) == IF a >= b THEN a ELSE b
Min(a, b) == IF a <= b THEN a ELSE b
Clamp(v, lo, hi) == Max(lo, Min(v, hi))

\* n / d rounded to the nearest integer, halves away from zero (d > 0)
Rnd(n, d) == IF n >= 0 THEN (2 * n + d) \div (2 * d)
                       ELSE -((2 * (-n) + d) \div (2 * d))

RECURSIVE SqrtBetween(_, _, _)
\* the r in lo..hi with r*r <= n < (r+1)*(r+1), by bisection
SqrtBetween(n, lo, hi) ==
    IF lo >= hi THEN lo
    ELSE LET mid == (lo + hi + 1) \div 2
         IN IF mid * mid <= n THEN SqrtBetween(n, mid, hi)
                              ELSE SqrtBetween(n, lo, mid - 1)
\* floor of the square root (n < 2^30)
ISqrt(n) == SqrtBetween(n, 0, 32767)

Zero2 == <<0, 0>>
VAdd(a, b) == <<a[1] + b[1], a[2] + b[2]>>
VSub(a, b) == <<a[1] - b[1], a[2] - b[2]>>

---------------------------------------------------------------------------
(* Textures and sampling *)

Cells == (0 .. GridW - 1) \X (0 .. GridH - 1)   \* texel (x, y), y upwards as in GL
ZeroField == [c \in Cells |-> Zero2]

\* v_texCoord of the fragment drawn for texel c
Centre(c) == <<c[1] * Q + Q \div 2, c[2] * Q + Q \div 2>>

\* texel (i, j) under TEXTURE_WRAP_S/T = CLAMP_TO_EDGE
TexelAt(f, i, j) == f[<<Clamp(i, 0, GridW - 1), Clamp(j, 0, GridH - 1)>>]

\* texture(sampler, p) with MIN/MAG_FILTER = LINEAR
TextureLinear(f, p) ==
    LET x  == p[1] - Q \div 2
        y  == p[2] - Q \div 2
        i0 == x \div Q
        j0 == y \div Q
        fx == x - i0 * Q
        fy == y - j0 * Q
        t00 == TexelAt(f, i0, j0)
        t10 == TexelAt(f, i0 + 1, j0)
        t01 == TexelAt(f, i0, j0 + 1)
        t11 == TexelAt(f, i0 + 1, j0 + 1)
        Mix(k) == Rnd((Q - fx) * (Q - fy) * t00[k] + fx * (Q - fy) * t10[k]
                      + (Q - fx) * fy * t01[k] + fx * fy * t11[k], Q * Q)
    IN  <<Mix(1), Mix(2)>>

\* texture(sampler, p) with MIN/MAG_FILTER = NEAREST (the obstacle texture)
TextureNearest(f, p) == TexelAt(f, p[1] \div Q, p[2] \div Q)

Left(p)   == <<p[1] - Q, p[2]>>     \* p - vec2(u_texelSize.x, 0.0)
Right(p)  == <<p[1] + Q, p[2]>>     \* p + vec2(u_texelSize.x, 0.0)
Bottom(p) == <<p[1], p[2] - Q>>     \* p - vec2(0.0, u_texelSize.y)
Top(p)    == <<p[1], p[2] + Q>>     \* p + vec2(0.0, u_texelSize.y)

\* o.r > 0.1 and o.r < 0.1 for an obstacle sample o
IsWall(o)  == 10 * o[1] > Q
IsFluid(o) == 10 * o[1] < Q

---------------------------------------------------------------------------
(* Fragment shaders: the texel each writes for cell c *)

\* stepFactor of loop round i = 1..5: 0.9, then *= 0.8 each round
StepFactorNum == <<9, 72, 576, 4608, 36864>>
StepFactorDen == <<10, 100, 1000, 10000, 100000>>

\* the coordinate ADVECT_SHADER finally samples u_source at
AdvectCoord(c, u_velocity, u_obstacles) ==
    LET v_texCoord == Centre(c)
        velocity == TextureLinear(u_velocity, v_texCoord)
        \* velocity * u_dt * u_texelSize, u_dt = 1 / FPS
        previousCoord == VSub(v_texCoord, <<Rnd(velocity[1], FPS), Rnd(velocity[2], FPS)>>)
        delta == VSub(previousCoord, v_texCoord)
        Try(i) == VSub(v_texCoord, <<Rnd(delta[1] * StepFactorNum[i], StepFactorDen[i]),
                                     Rnd(delta[2] * StepFactorNum[i], StepFactorDen[i])>>)
        found == {i \in 1 .. 5 : IsFluid(TextureNearest(u_obstacles, Try(i)))}
        first == CHOOSE i \in found : \A j \in found : i <= j
    IN  IF IsWall(TextureNearest(u_obstacles, previousCoord))
        THEN IF found # {} THEN Try(first)
             ELSE IF IsWall(TextureNearest(u_obstacles, Try(5))) THEN v_texCoord
             ELSE Try(5)
        ELSE previousCoord

\* an advection shader that forgets the dissipation factor
ADVECT_SHADER_NoDissipation(c, u_velocity, u_source, u_obstacles, dissipation) ==
    IF IsWall(TextureNearest(u_obstacles, Centre(c))) THEN Zero2
    ELSE TextureLinear(u_source, AdvectCoord(c, u_velocity, u_obstacles))

\* an advection shader without the solid-cell test: solid cells are traced too
ADVECT_SHADER_NoSolidTest(c, u_velocity, u_source, u_obstacles, dissipation) ==
    LET s == TextureLinear(u_source, AdvectCoord(c, u_velocity, u_obstacles))
    IN  <<Rnd(s[1] * dissipation, 1000), Rnd(s[2] * dissipation, 1000)>>

\* u_dissipation is dissipation / 1000
ADVECT_SHADER(c, u_velocity, u_source, u_obstacles, dissipation) ==
    IF IsWall(TextureNearest(u_obstacles, Centre(c))) THEN Zero2
    ELSE LET s == TextureLinear(u_source, AdvectCoord(c, u_velocity, u_obstacles))
         IN  <<Rnd(s[1] * dissipation, 1000), Rnd(s[2] * dissipation, 1000)>>

\* exp(-dot(p, p) / u_radius), u_radius = 0.001, p.x scaled by u_aspectRatio:
\* the exponent is d2 / (10 * GridH^2) for a squared distance d2 in (1/Q texel)^2;
\* at resolution 1/Q the weight is 1 at the point and 0 one texel or more away
\* (exponent >= 1000 / GridH^2 > 5.3 while GridH <= 13)
SplatWeight(d2) == IF d2 = 0 THEN Q ELSE 0

SPLAT_SHADER(c, u_target, u_point, u_color) ==
    LET p == VSub(Centre(c), u_point)
        w == SplatWeight(p[1] * p[1] + p[2] * p[2])
        base == TextureLinear(u_target, Centre(c))
    IN  <<base[1] + Rnd(u_color[1] * w, Q), base[2] + Rnd(u_color[2] * w, Q)>>

\* a divergence shader that differences backwards: (L - R + B - T) / 2
DIVERGENCE_SHADER_Backwards(c, u_velocity, u_obstacles) ==
    LET p == Centre(c)
        L == IF IsWall(TextureNearest(u_obstacles, Left(p)))   THEN 0 ELSE TextureLinear(u_velocity, Left(p))[1]
        R == IF IsWall(TextureNearest(u_obstacles, Right(p)))  THEN 0 ELSE TextureLinear(u_velocity, Right(p))[1]
        B == IF IsWall(TextureNearest(u_obstacles, Bottom(p))) THEN 0 ELSE TextureLinear(u_velocity, Bottom(p))[2]
        T == IF IsWall(TextureNearest(u_obstacles, Top(p)))    THEN 0 ELSE TextureLinear(u_velocity, Top(p))[2]
    IN  IF IsWall(TextureNearest(u_obstacles, p)) THEN Zero2
        ELSE <<Rnd(L - R + B - T, 2), 0>>

DIVERGENCE_SHADER(c, u_velocity, u_obstacles) ==
    LET p == Centre(c)
        L0 == TextureLinear(u_velocity, Left(p))[1]
        R0 == TextureLinear(u_velocity, Right(p))[1]
        B0 == TextureLinear(u_velocity, Bottom(p))[2]
        T0 == TextureLinear(u_velocity, Top(p))[2]
        L == IF IsWall(TextureNearest(u_obstacles, Left(p)))   THEN 0 ELSE L0
        R == IF IsWall(TextureNearest(u_obstacles, Right(p)))  THEN 0 ELSE R0
        B == IF IsWall(TextureNearest(u_obstacles, Bottom(p))) THEN 0 ELSE B0
        T == IF IsWall(TextureNearest(u_obstacles, Top(p)))    THEN 0 ELSE T0
    IN  IF IsWall(TextureNearest(u_obstacles, p)) THEN Zero2
        ELSE <<Rnd(R - L + T - B, 2), 0>>

\* a relaxation shader with u_alpha on the neighbour sum instead of on the centre term
ITERATE_SHADER_AlphaOnSum(c, u_x, u_b, u_obstacles, alphaNum, betaNum, den) ==
    LET p == Centre(c)
        xC == TextureLinear(u_x, p)
        bC == TextureLinear(u_b, p)
        L == IF IsWall(TextureNearest(u_obstacles, Left(p)))   THEN xC ELSE TextureLinear(u_x, Left(p))
        R == IF IsWall(TextureNearest(u_obstacles, Right(p)))  THEN xC ELSE TextureLinear(u_x, Right(p))
        B == IF IsWall(TextureNearest(u_obstacles, Bottom(p))) THEN xC ELSE TextureLinear(u_x, Bottom(p))
        T == IF IsWall(TextureNearest(u_obstacles, Top(p)))    THEN xC ELSE TextureLinear(u_x, Top(p))
        Out(k) == Rnd((L[k] + R[k] + B[k] + T[k]) * alphaNum + bC[k] * den, betaNum)
    IN  <<Out(1), Out(2)>>

\* u_alpha = alphaNum / den, u_beta = betaNum / den
ITERATE_SHADER(c, u_x, u_b, u_obstacles, alphaNum, betaNum, den) ==
    LET p == Centre(c)
        xC == TextureLinear(u_x, p)
        bC == TextureLinear(u_b, p)
        L == IF IsWall(TextureNearest(u_obstacles, Left(p)))   THEN xC ELSE TextureLinear(u_x, Left(p))
        R == IF IsWall(TextureNearest(u_obstacles, Right(p)))  THEN xC ELSE TextureLinear(u_x, Right(p))
        B == IF IsWall(TextureNearest(u_obstacles, Bottom(p))) THEN xC ELSE TextureLinear(u_x, Bottom(p))
        T == IF IsWall(TextureNearest(u_obstacles, Top(p)))    THEN xC ELSE TextureLinear(u_x, Top(p))
        Out(k) == Rnd((L[k] + R[k] + B[k] + T[k]) * den + bC[k] * alphaNum, betaNum)
    IN  <<Out(1), Out(2)>>

\* a gradient shader that reads the pressure stored in solid neighbours
GRADIENT_SUBTRACT_SHADER_NoNeumann(c, u_velocity, u_pressure, u_obstacles) ==
    LET p == Centre(c)
        pL == TextureLinear(u_pressure, Left(p))[1]
        pR == TextureLinear(u_pressure, Right(p))[1]
        pB == TextureLinear(u_pressure, Bottom(p))[1]
        pT == TextureLinear(u_pressure, Top(p))[1]
        vel == TextureLinear(u_velocity, p)
    IN  IF IsWall(TextureNearest(u_obstacles, p)) THEN Zero2
        ELSE <<vel[1] - Rnd(pR - pL, 2), vel[2] - Rnd(pT - pB, 2)>>

GRADIENT_SUBTRACT_SHADER(c, u_velocity, u_pressure, u_obstacles) ==
    LET p == Centre(c)
        pC == TextureLinear(u_pressure, p)[1]
        pL == IF IsWall(TextureNearest(u_obstacles, Left(p)))   THEN pC ELSE TextureLinear(u_pressure, Left(p))[1]
        pR == IF IsWall(TextureNearest(u_obstacles, Right(p)))  THEN pC ELSE TextureLinear(u_pressure, Right(p))[1]
        pB == IF IsWall(TextureNearest(u_obstacles, Bottom(p))) THEN pC ELSE TextureLinear(u_pressure, Bottom(p))[1]
        pT == IF IsWall(TextureNearest(u_obstacles, Top(p)))    THEN pC ELSE TextureLinear(u_pressure, Top(p))[1]
        vel == TextureLinear(u_velocity, p)
    IN  IF IsWall(TextureNearest(u_obstacles, p)) THEN Zero2
        ELSE <<vel[1] - Rnd(pR - pL, 2), vel[2] - Rnd(pT - pB, 2)>>

CURL_SHADER(c, u_velocity) ==
    LET p == Centre(c)
        L == TextureLinear(u_velocity, Left(p))[2]
        R == TextureLinear(u_velocity, Right(p))[2]
        T == TextureLinear(u_velocity, Top(p))[1]
        B == TextureLinear(u_velocity, Bottom(p))[1]
    IN  <<Rnd((R - L) - (T - B), 2), 0>>

\* u_curlStrength = 3.0, u_dt = 1 / FPS
VORTICITY_SHADER(c, u_velocity, u_curl, u_obstacles) ==
    LET p == Centre(c)
        L == Abs(TextureLinear(u_curl, Left(p))[1])
        R == Abs(TextureLinear(u_curl, Right(p))[1])
        B == Abs(TextureLinear(u_curl, Bottom(p))[1])
        T == Abs(TextureLinear(u_curl, Top(p))[1])
        C == TextureLinear(u_curl, p)[1]
        g0 == <<Rnd(R - L, 2), Rnd(T - B, 2)>>
        len == ISqrt(g0[1] * g0[1] + g0[2] * g0[2])
        \* len > 0.0001: at resolution 1/Q, any non-zero length
        gradient == IF len > 0 THEN <<Rnd(g0[1] * Q, len), Rnd(g0[2] * Q, len)>> ELSE g0
        forceDir == <<gradient[2], -gradient[1]>>
        velocity == TextureLinear(u_velocity, p)
    IN  IF IsWall(TextureNearest(u_obstacles, p)) THEN Zero2
        ELSE <<velocity[1] + Rnd(forceDir[1] * C * 3, Q * FPS),
               velocity[2] + Rnd(forceDir[2] * C * 3, Q * FPS)>>

\* a boundary shader that damps the tangential component but leaves the normal one
BOUNDARY_SHADER_DampOnly(c, u_velocity, u_obstacles, damping) ==
    LET p == Centre(c)
        v0 == TextureLinear(u_velocity, p)
        nearX == \/ IsWall(TextureNearest(u_obstacles, Bottom(p)))
                 \/ IsWall(TextureNearest(u_obstacles, Top(p)))
        nearY == \/ IsWall(TextureNearest(u_obstacles, Left(p)))
                 \/ IsWall(TextureNearest(u_obstacles, Right(p)))
    IN  IF IsWall(TextureNearest(u_obstacles, p)) THEN Zero2
        ELSE <<IF nearX THEN Rnd(v0[1] * damping, 100) ELSE v0[1],
               IF nearY THEN Rnd(v0[2] * damping, 100) ELSE v0[2]>>

\* u_damping = damping / 100
BOUNDARY_SHADER(c, u_velocity, u_obstacles, damping) ==
    LET p == Centre(c)
        v0 == TextureLinear(u_velocity, p)
        oLeft   == IsWall(TextureNearest(u_obstacles, Left(p)))
        oRight  == IsWall(TextureNearest(u_obstacles, Right(p)))
        oBottom == IsWall(TextureNearest(u_obstacles, Bottom(p)))
        oTop    == IsWall(TextureNearest(u_obstacles, Top(p)))
        v1 == IF oLeft   THEN <<Max(v0[1], 0), Rnd(v0[2] * damping, 100)>> ELSE v0
        v2 == IF oRight  THEN <<Min(v1[1], 0), Rnd(v1[2] * damping, 100)>> ELSE v1
        v3 == IF oBottom THEN <<Rnd(v2[1] * damping, 100), Max(v2[2], 0)>> ELSE v2
        v4 == IF oTop    THEN <<Rnd(v3[1] * damping, 100), Min(v3[2], 0)>> ELSE v3
    IN  IF IsWall(TextureNearest(u_obstacles, p)) THEN Zero2 ELSE v4

---------------------------------------------------------------------------
(* FluidSolverGPU: buffers *)

Fields == {"velocity", "density", "pressure"}
TexIds == {"velocity0", "velocity1", "density0", "density1", "pressure0", "pressure1",
           "divergence", "curl", "obstacles"}

\* createDoubleFramebuffer: two fresh framebuffers
createDoubleFramebuffer(name) ==
    [read |-> name \o "0", write |-> name \o "1"]

\* a swap that forgets the temporary: both names end on the former write buffer
swapNoTemp(d) == [read |-> d.write, write |-> d.write]

\* DoubleFramebuffer.swap()
swap(d) == [read |-> d.write, write |-> d.read]

\* gl.scissor(x, y, width, height); gl.clear(COLOR_BUFFER_BIT) with clear colour
\* `colour` on a framebuffer holding f: the texels inside the box are overwritten
ScissorClear(f, x, y, width, height, colour) ==
    [c \in Cells |->
        IF /\ c[1] >= x /\ c[1] < x + width
           /\ c[2] >= y /\ c[2] < y + height
        THEN colour ELSE f[c]]

\* an updateBoundaries without its first full clear: the walls are drawn over the
\* texture's former contents
ObstacleMaskNoClear(b) ==
    LET thickness == boundaryThickness
        solid == <<Q, 0>>
        f0 == tex["obstacles"]
        f1 == IF b.top THEN ScissorClear(f0, 0, GridH - thickness, GridW, thickness, solid)
                       ELSE f0
        f2 == IF b.bottom THEN ScissorClear(f1, 0, 0, GridW, thickness, solid) ELSE f1
        f3 == IF b.left THEN ScissorClear(f2, 0, 0, thickness, GridH, solid) ELSE f2
    IN  IF b.right THEN ScissorClear(f3, GridW - thickness, 0, thickness, GridH, solid)
                   ELSE f3

\* the obstacle texture updateBoundaries leaves for a wall configuration b: a full
\* clear to (0,0,0,0), then one scissored clear to (1,0,0,1) per enabled wall
ObstacleMask(b) ==
    LET thickness == boundaryThickness
        solid == <<Q, 0>>
        f0 == [c \in Cells |-> Zero2]
        f1 == IF b.top THEN ScissorClear(f0, 0, GridH - thickness, GridW, thickness, solid)
                       ELSE f0
        f2 == IF b.bottom THEN ScissorClear(f1, 0, 0, GridW, thickness, solid) ELSE f1
        f3 == IF b.left THEN ScissorClear(f2, 0, 0, thickness, GridH, solid) ELSE f2
    IN  IF b.right THEN ScissorClear(f3, GridW - thickness, 0, thickness, GridH, solid)
                   ELSE f3

RECURSIVE SumCells(_, _)
SumCells(f, S) ==
    IF S = {} THEN 0
    ELSE LET c == CHOOSE x \in S : TRUE
         IN  f[c][1] + f[c][2] + SumCells(f, S \ {c})

\* FluidDebugger.measureMass: the sum of all channels of all density samples
measureMass(f) == SumCells(f, Cells)

---------------------------------------------------------------------------
(* Construction.  Every step of a constructor that can throw yields its error *)
(* message, "" when it passes; the constructor throws the first of them.      *)

\* the fragment shaders in the order the constructor builds their programs
ProgramOrder ==
    << "advect", "render", "splat", "divergence", "iterate", "gradientSubtract",
       "curl", "vorticity", "boundary" >>

\* what the browser may refuse: nothing, the WebGL2 context, a float extension, the
\* compilation of the vertex shader or of one fragment shader, the linking of one program
GlEnvironments ==
    {"ok", "no webgl2", "no EXT_color_buffer_float", "no OES_texture_float_linear",
     "compile vertex"}
    \cup {"compile " \o ProgramOrder[i] : i \in 1 .. Len(ProgramOrder)}
    \cup {"link " \o ProgramOrder[i] : i \in 1 .. Len(ProgramOrder)}

\* createShader(type, source): throws when COMPILE_STATUS is false
createShader(env, type, name) ==
    IF \/ type = "VERTEX_SHADER" /\ env = "compile vertex"
       \/ type = "FRAGMENT_SHADER" /\ env = "compile " \o name
    THEN "Could not compile shader" ELSE ""

\* createProgram(VERTEX_SHADER, fragment): both shaders, then throws when LINK_STATUS is false
createProgram(env, name) ==
    LET vertexShader == createShader(env, "VERTEX_SHADER", name)
        fragmentShader == createShader(env, "FRAGMENT_SHADER", name)
    IN  IF vertexShader # "" THEN vertexShader
        ELSE IF fragmentShader # "" THEN fragmentShader
        ELSE IF env = "link " \o name THEN "Could not link program"
        ELSE ""

\* gl.checkFramebufferStatus after texImage2D(.., RGBA32F, width, height, .., null) and
\* framebufferTexture2D: a negative size is INVALID_VALUE and defines no image, and an
\* attachment with no image or with a zero width or height is incomplete
checkFramebufferStatus(width, height) ==
    IF width > 0 /\ height > 0 THEN "FRAMEBUFFER_COMPLETE"
    ELSE "FRAMEBUFFER_INCOMPLETE_ATTACHMENT"

\* createFramebuffer(width, height): throws unless the framebuffer is complete
createFramebuffer(width, height) ==
    IF checkFramebufferStatus(width, height) # "FRAMEBUFFER_COMPLETE"
    THEN "Framebuffer incomplete" ELSE ""

RECURSIVE FirstError(_)
\* the first exception of a sequence of steps, "" when none throws
FirstError(steps) ==
    IF steps = <<>> THEN ""
    ELSE IF Head(steps) # "" THEN Head(steps)
    ELSE FirstError(Tail(steps))

\* the outcome of a constructor call
Outcome(kind, env, width, height, error) ==
    [kind |-> kind, env |-> env, width |-> width, height |-> height,
     status |-> IF error = "" THEN "ready" ELSE "error", error |-> error]

\* a FluidSolverGPU constructor that allocates its textures without checking the
\* framebuffers
FluidSolverGPU_constructorUnchecked(env, width, height) ==
    Outcome("gpu", env, width, height,
        FirstError(
            << IF env = "no webgl2" THEN "WebGL2 not supported" ELSE "",
               IF env = "no EXT_color_buffer_float"
                    THEN "EXT_color_buffer_float not supported" ELSE "",
               IF env = "no OES_texture_float_linear"
                    THEN "OES_texture_float_linear not supported" ELSE "" >>
            \o [i \in 1 .. Len(ProgramOrder) |-> createProgram(env, ProgramOrder[i])]))

\* new FluidSolverGPU(canvas, width, height): context, extensions, the nine
\* framebuffers (three double, three single), then the nine programs
FluidSolverGPU_constructor(env, width, height) ==
    Outcome("gpu", env, width, height,
        FirstError(
            << IF env = "no webgl2" THEN "WebGL2 not supported" ELSE "",
               IF env = "no EXT_color_buffer_float"
                    THEN "EXT_color_buffer_float not supported" ELSE "",
               IF env = "no OES_texture_float_linear"
                    THEN "OES_texture_float_linear not supported" ELSE "" >>
            \o [i \in 1 .. 9 |-> createFramebuffer(width, height)]
            \o [i \in 1 .. Len(ProgramOrder) |-> createProgram(env, ProgramOrder[i])]))

\* new Float32Array(length): RangeError for a negative length
Float32ArrayError(length) == IF length < 0 THEN "RangeError" ELSE ""

\* new ImageData(sw, sh): IndexSizeError when a side is 0; a negative argument converts
\* to 2^32 + sw (unsigned long), a size no buffer can be allocated for
ImageDataError(sw, sh) ==
    IF sw = 0 \/ sh = 0 THEN "IndexSizeError"
    ELSE IF sw < 0 \/ sh < 0 THEN "RangeError"
    ELSE ""

\* new FluidSolver(resolution): six Float32Arrays of (resolution + 2)^2, then
\* new ImageData(resolution, resolution)
FluidSolver_constructor(resolution) ==
    LET size == (resolution + 2) * (resolution + 2)
    IN  Outcome("cpu", "ok", resolution, resolution,
            FirstError([i \in 1 .. 6 |-> Float32ArrayError(size)]
                       \o << ImageDataError(resolution, resolution) >>))

---------------------------------------------------------------------------
(* The callbacks of FluidCanvasGPU as programs: the passes each performs, in order *)

E(op, stage, fn) == [op |-> op, stage |-> stage, fn |-> fn]

\* FluidSolverGPU.project(iterations)
ProjectProgram ==
    << E("computeDivergence", "project", "project"),
       E("clearPressure", "project", "project"),
       E("iteratePressure", "project", "project"),
       E("subtractPressureGradient", "project", "project") >>

\* step(dt) with the diffusion before the advection
StepProgramDiffuseFirst ==
    << E("iterateVelocity", "velocity-diffuse", "step"),
       E("enforceBoundaries", "boundary-enforce", "step"),
       E("advectVelocity", "velocity-advect", "step"),
       E("enforceBoundaries", "boundary-enforce", "step") >>
    \o ProjectProgram \o
    << E("enforceBoundaries", "boundary-enforce", "step"),
       E("advectDensity", "density-advect", "step") >>

\* step(dt) without the enforceBoundaries after the advection
StepProgramNoEnforce ==
    << E("advectVelocity", "velocity-advect", "step"),
       E("iterateVelocity", "velocity-diffuse", "step"),
       E("enforceBoundaries", "boundary-enforce", "step") >>
    \o ProjectProgram \o
    << E("enforceBoundaries", "boundary-enforce", "step"),
       E("advectDensity", "density-advect", "step") >>

\* step(dt) without the enforceBoundaries after the projection
StepProgramProjectLast ==
    << E("advectVelocity", "velocity-advect", "step"),
       E("enforceBoundaries", "boundary-enforce", "step"),
       E("iterateVelocity", "velocity-diffuse", "step"),
       E("enforceBoundaries", "boundary-enforce", "step") >>
    \o ProjectProgram \o
    << E("advectDensity", "density-advect", "step") >>

\* FluidSolverGPU.step(dt)
StepProgram ==
    << E("advectVelocity", "velocity-advect", "step"),
       E("enforceBoundaries", "boundary-enforce", "step"),
       E("iterateVelocity", "velocity-diffuse", "step"),
       E("enforceBoundaries", "boundary-enforce", "step") >>
    \o ProjectProgram \o
    << E("enforceBoundaries", "boundary-enforce", "step"),
       E("advectDensity", "density-advect", "step") >>

\* loop() with the confinement after the step
LoopProgramStepFirst ==
    << E("splatDensity", "splat", "loop"),
       E("splatVelocity", "splat", "loop") >>
    \o StepProgram \o
    << E("computeCurl", "curl", "loop"),
       E("applyVorticity", "vorticity-confinement", "loop"),
       E("enforceBoundaries", "boundary-enforce", "loop"),
       E("render", "render", "loop"),
       E("measureMass", "measure", "loop") >>

\* loop() of FluidCanvasGPU
LoopProgram ==
    << E("splatDensity", "splat", "loop"),
       E("splatVelocity", "splat", "loop"),
       E("computeCurl", "curl", "loop"),
       E("applyVorticity", "vorticity-confinement", "loop"),
       E("enforceBoundaries", "boundary-enforce", "loop") >>
    \o StepProgram \o
    << E("render", "render", "loop"),
       E("measureMass", "measure", "loop") >>

\* the two effects at mount: construct, updateBoundaries, loop(); then the boundaries effect
MountProgram ==
    << E("updateBoundaries", "updateBoundaries", "effect") >>
    \o LoopProgram \o
    << E("updateBoundaries", "updateBoundaries", "effect") >>

\* the [debugMode] effect run again: construct, updateBoundaries, loop()
RemountProgram ==
    << E("updateBoundaries", "updateBoundaries", "effect") >> \o LoopProgram

\* a step that cleans up the velocity before it diffuses it
CpuStepProgramProjectFirst ==
    << E("projectPrevDivergence", "project", "project"),
       E("projectPrevSolve", "project", "project"),
       E("projectPrevGradient", "project", "project"),
       E("diffuseVelocityX", "velocity-diffuse", "step"),
       E("diffuseVelocityY", "velocity-diffuse", "step"),
       E("advectVelocityX", "velocity-advect", "step"),
       E("advectVelocityY", "velocity-advect", "step"),
       E("projectCurrDivergence", "project", "project"),
       E("projectCurrSolve", "project", "project"),
       E("projectCurrGradient", "project", "project"),
       E("diffuseDensity", "density-diffuse", "step"),
       E("advectDensityCpu", "density-advect", "step") >>

\* FluidSolver.step(dt) and loop() of FluidCanvas: step(TIME_STEP); render(ctx)
CpuStepProgram ==
    << E("diffuseVelocityX", "velocity-diffuse", "step"),
       E("diffuseVelocityY", "velocity-diffuse", "step"),
       E("projectPrevDivergence", "project", "project"),
       E("projectPrevSolve", "project", "project"),
       E("projectPrevGradient", "project", "project"),
       E("advectVelocityX", "velocity-advect", "step"),
       E("advectVelocityY", "velocity-advect", "step"),
       E("projectCurrDivergence", "project", "project"),
       E("projectCurrSolve", "project", "project"),
       E("projectCurrGradient", "project", "project"),
       E("diffuseDensity", "density-diffuse", "step"),
       E("advectDensityCpu", "density-advect", "step") >>

CpuLoopProgram == CpuStepProgram \o << E("renderCpu", "render", "loop") >>

Program(name) ==
    CASE name = "mount"    -> MountProgram
      [] name = "remount"  -> RemountProgram
      [] name = "frame"    -> LoopProgram
      [] name = "cpumount" -> CpuLoopProgram
      [] name = "cpuframe" -> CpuLoopProgram

\* between callbacks: the next thing to run is a whole animation frame
IdlePc == IF page = "gpu" THEN <<"frame", 1>> ELSE <<"cpuframe", 1>>
Idle == pc = IdlePc /\ iter = 0
Cur == Program(pc[1])[pc[2]]
InStep(e) == e.fn \in {"step", "project"}

\* the entry at position i of program prog begins a new operator of its caller
StartsStage(prog, i) == i = 1 \/ prog[i - 1].stage # prog[i].stage

PcNext == IF pc[2] < Len(Program(pc[1])) THEN <<pc[1], pc[2] + 1>> ELSE IdlePc

\* history kept by every program entry: position, logs, and (when a pass ran)
\* the buffers the pass sampled and the buffers it drew to
Bookkeep(done, ran, reads, writes) ==
    LET prog == Program(pc[1])
        e == prog[pc[2]]
        starts == ran /\ iter = 0 /\ StartsStage(prog, pc[2])
        firstOfStep == InStep(e) /\ iter = 0 /\ (pc[2] = 1 \/ ~InStep(prog[pc[2] - 1]))
        firstOfLoop == e.fn # "effect" /\ (pc[2] = 1 \/ prog[pc[2] - 1].fn = "effect")
        stepBase == IF firstOfStep THEN <<>> ELSE stepOps
        frameBase == IF firstOfLoop THEN <<>> ELSE frameOps
    IN  /\ pc' = IF done THEN PcNext ELSE pc
        /\ iter' = IF done THEN 0 ELSE iter + 1
        /\ stepOps' = IF ~InStep(e) THEN stepOps
                      ELSE IF starts THEN Append(stepBase, e.stage) ELSE stepBase
        /\ frameOps' = IF e.fn = "effect" THEN frameOps
                       ELSE IF starts THEN Append(frameBase, e.stage) ELSE frameBase
        /\ lastPass' = [op |-> IF ran THEN e.op ELSE "none", stage |-> e.stage,
                        reads |-> reads, writes |-> writes]

\* a loop() that is started although the constructor threw
GpuOpUnguarded(name) == page = "gpu" /\ Cur.op = name

\* loop() runs only when the effect's try block constructed the solver
GpuOp(name) == page = "gpu" /\ solver.status = "ready" /\ Cur.op = name

---------------------------------------------------------------------------
(* FluidSolverGPU: one action per pass *)

ViscosityInv == 1000                               \* viscosity = 0.001
AlphaNum == ViscosityInv * FPS                     \* alpha = (1/w)^2 / (viscosity * dt)
AlphaDen == GridW * GridW
BetaNum == 4 * AlphaDen + AlphaNum                 \* beta = 4 + alpha

CpuIdle == UNCHANGED <<arr, solver>>
CanvasIdle == UNCHANGED <<page, boundaries, debugMode, events>>

\* a swap implemented as a copy: the drawn buffer is also copied over the read buffer
DrawCopySwap(f, field) ==
    /\ tex' = [tex EXCEPT ![dfb[f].write] = field, ![dfb[f].read] = field]
    /\ dfb' = [dfb EXCEPT ![f] = swap(dfb[f])]

\* a pass that draws `field` into the write buffer of f and forgets f.swap()
DrawNoSwap(f, field) ==
    /\ tex' = [tex EXCEPT ![dfb[f].write] = field]
    /\ dfb' = dfb

\* draw `field` into the write buffer of f, then f.swap()
DrawSwap(f, field) ==
    /\ tex' = [tex EXCEPT ![dfb[f].write] = field]
    /\ dfb' = [dfb EXCEPT ![f] = swap(dfb[f])]

\* advect(output, velocity, dt, dissipation)
advect(f, dissipation) ==
    /\ DrawSwap(f, [c \in Cells |->
            ADVECT_SHADER(c, tex[dfb["velocity"].read], tex[dfb[f].read],
                          tex["obstacles"], dissipation)])
    /\ Bookkeep(TRUE, TRUE, {dfb["velocity"].read, dfb[f].read, "obstacles"}, {dfb[f].write})

\* iterate(x, b, alpha, beta): one relaxation pass, `last` on the final loop round
iterate(f, b, alphaNum, betaNum, den, last) ==
    /\ DrawSwap(f, [c \in Cells |->
            ITERATE_SHADER(c, tex[dfb[f].read], tex[b], tex["obstacles"],
                           alphaNum, betaNum, den)])
    /\ Bookkeep(last, TRUE, {dfb[f].read, b, "obstacles"}, {dfb[f].write})

\* step: this.advect(this.velocity, this.velocity, dt, 1.0)
AdvectVelocity ==
    /\ GpuOp("advectVelocity")
    /\ advect("velocity", 1000)
    /\ velDirty' = Cur.stage
    /\ UNCHANGED <<clearColor, mouse, frameCount, massStats, frames, massRef>>
    /\ CpuIdle /\ CanvasIdle

\* step: this.advect(this.density, this.velocity, dt, 0.999)
AdvectDensity ==
    /\ GpuOp("advectDensity")
    /\ advect("density", 999)
    /\ UNCHANGED <<clearColor, mouse, frameCount, massStats, frames, velDirty, massRef>>
    /\ CpuIdle /\ CanvasIdle

\* step: round `iter` of the viscosity loop,
\* this.iterate(this.velocity, this.velocity.read.texture, alpha, beta)
IterateVelocity ==
    /\ GpuOp("iterateVelocity")
    /\ iterate("velocity", dfb["velocity"].read, AlphaNum, BetaNum, AlphaDen,
               iter + 1 = DiffuseIterations)
    /\ velDirty' = Cur.stage
    /\ UNCHANGED <<clearColor, mouse, frameCount, massStats, frames, massRef>>
    /\ CpuIdle /\ CanvasIdle

\* enforceBoundaries drawing over the buffer it samples, without a swap
enforceBoundariesInPlace(damping) ==
    /\ tex' = [tex EXCEPT ![dfb["velocity"].read] = [c \in Cells |->
            BOUNDARY_SHADER(c, tex[dfb["velocity"].read], tex["obstacles"], damping)]]
    /\ dfb' = dfb
    /\ Bookkeep(TRUE, TRUE, {dfb["velocity"].read, "obstacles"}, {dfb["velocity"].read})

\* enforceBoundaries(damping)
enforceBoundaries(damping) ==
    /\ DrawSwap("velocity", [c \in Cells |->
            BOUNDARY_SHADER(c, tex[dfb["velocity"].read], tex["obstacles"], damping)])
    /\ Bookkeep(TRUE, TRUE, {dfb["velocity"].read, "obstacles"}, {dfb["velocity"].write})

\* every call site passes damping 0.99
EnforceBoundaries ==
    /\ GpuOp("enforceBoundaries")
    /\ enforceBoundaries(99)
    /\ velDirty' = ""
    /\ UNCHANGED <<clearColor, mouse, frameCount, massStats, frames, massRef>>
    /\ CpuIdle /\ CanvasIdle

\* project: computeDivergence()
ComputeDivergence ==
    /\ GpuOp("computeDivergence")
    /\ tex' = [tex EXCEPT !["divergence"] = [c \in Cells |->
            DIVERGENCE_SHADER(c, tex[dfb["velocity"].read], tex["obstacles"])]]
    /\ Bookkeep(TRUE, TRUE, {dfb["velocity"].read, "obstacles"}, {"divergence"})
    /\ UNCHANGED <<dfb, clearColor, mouse, frameCount, massStats, frames, velDirty, massRef>>
    /\ CpuIdle /\ CanvasIdle

\* project: bindFramebuffer(pressure.read.framebuffer); gl.clear(COLOR_BUFFER_BIT)
\* fills the buffer with the context's current clear colour
ClearPressure ==
    /\ GpuOp("clearPressure")
    /\ tex' = [tex EXCEPT ![dfb["pressure"].read] = [c \in Cells |-> clearColor]]
    /\ Bookkeep(TRUE, TRUE, {}, {dfb["pressure"].read})
    /\ UNCHANGED <<dfb, clearColor, mouse, frameCount, massStats, frames, velDirty, massRef>>
    /\ CpuIdle /\ CanvasIdle

\* a pressure loop that also stops as soon as a pass leaves the pressure unchanged
IteratePressureUntilSteady ==
    /\ GpuOp("iteratePressure")
    /\ iterate("pressure", "divergence", -1, 4, 1,
               \/ iter + 1 = ProjectIterations
               \/ \A c \in Cells :
                     ITERATE_SHADER(c, tex[dfb["pressure"].read], tex["divergence"],
                                    tex["obstacles"], -1, 4, 1) = tex[dfb["pressure"].read][c])
    /\ UNCHANGED <<clearColor, mouse, frameCount, massStats, frames, velDirty, massRef>>
    /\ CpuIdle /\ CanvasIdle

\* project: round `iter` of this.iterate(this.pressure, this.divergence.texture, -1.0, 4.0)
IteratePressure ==
    /\ GpuOp("iteratePressure")
    /\ iterate("pressure", "divergence", -1, 4, 1, iter + 1 = ProjectIterations)
    /\ UNCHANGED <<clearColor, mouse, frameCount, massStats, frames, velDirty, massRef>>
    /\ CpuIdle /\ CanvasIdle

\* project: subtractPressureGradient()
SubtractPressureGradient ==
    /\ GpuOp("subtractPressureGradient")
    /\ DrawSwap("velocity", [c \in Cells |->
            GRADIENT_SUBTRACT_SHADER(c, tex[dfb["velocity"].read],
                                     tex[dfb["pressure"].read], tex["obstacles"])])
    /\ Bookkeep(TRUE, TRUE, {dfb["velocity"].read, dfb["pressure"].read, "obstacles"},
                {dfb["velocity"].write})
    /\ velDirty' = Cur.stage
    /\ UNCHANGED <<clearColor, mouse, frameCount, massStats, frames, massRef>>
    /\ CpuIdle /\ CanvasIdle

\* computeCurl()
ComputeCurl ==
    /\ GpuOp("computeCurl")
    /\ tex' = [tex EXCEPT !["curl"] = [c \in Cells |->
            CURL_SHADER(c, tex[dfb["velocity"].read])]]
    /\ Bookkeep(TRUE, TRUE, {dfb["velocity"].read}, {"curl"})
    /\ UNCHANGED <<dfb, clearColor, mouse, frameCount, massStats, frames, velDirty, massRef>>
    /\ CpuIdle /\ CanvasIdle

\* applyVorticity(dt)
ApplyVorticity ==
    /\ GpuOp("applyVorticity")
    /\ DrawSwap("velocity", [c \in Cells |->
            VORTICITY_SHADER(c, tex[dfb["velocity"].read], tex["curl"], tex["obstacles"])])
    /\ Bookkeep(TRUE, TRUE, {dfb["velocity"].read, "curl", "obstacles"}, {dfb["velocity"].write})
    /\ velDirty' = Cur.stage
    /\ UNCHANGED <<clearColor, mouse, frameCount, massStats, frames, massRef>>
    /\ CpuIdle /\ CanvasIdle

---------------------------------------------------------------------------
(* FluidCanvasGPU: the rest of loop(), the effects and the input handlers *)

\* pointer positions the model explores, in canvas pixels (x from the left, y from the top)
PointerCells == {<<0, 1>>, <<1, 1>>, <<2, 1>>}
\* dye colours the model explores (R, G), as HSVtoRGB(.., 1.0, 0.5) produces
Colours == {<<DQ \div 2, 0>>, <<DQ \div 2, DQ \div 2>>}
DebugModes == {"normal", "divergence", "velocity", "obstacles"}
Sides == {"top", "bottom", "left", "right"}

\* getPointerPos for a pointer at the middle of canvas pixel px
PointerPos(px) == <<px[1] * Q + Q \div 2, px[2] * Q + Q \div 2>>

\* loop(): dx, dy = (mousePos - lastMousePos) * FORCE_MULTIPLIER
MouseDelta == <<(mouse.mousePos[1] - mouse.lastMousePos[1]) * FORCE_MULTIPLIER,
                (mouse.mousePos[2] - mouse.lastMousePos[2]) * FORCE_MULTIPLIER>>
\* loop(): isMouseDown && !hasSplatted && (|dx| > 0.5 || |dy| > 0.5)
WillSplat ==
    /\ mouse.isMouseDown
    /\ ~mouse.hasSplatted
    /\ (2 * Abs(MouseDelta[1]) > Q \/ 2 * Abs(MouseDelta[2]) > Q)

\* splat(target, x, y, r, g, b): u_point = (x / width, 1 - y / height)
splat(f, pos, colour) ==
    DrawSwap(f, [c \in Cells |->
        SPLAT_SHADER(c, tex[dfb[f].read], <<pos[1], GridH * Q - pos[2]>>, colour)])

\* loop(): solver.splat(solver.density, mousePos.x, mousePos.y, rgb.r, rgb.g, rgb.b)
\* the first entry of loop(): begins an animation frame
SplatDensity ==
    /\ GpuOp("splatDensity")
    /\ frames' = frames + 1
    /\ IF WillSplat
       THEN /\ splat("density", mouse.mousePos, mouse.rgb)
            /\ Bookkeep(TRUE, TRUE, {dfb["density"].read}, {dfb["density"].write})
            /\ massRef' = measureMass(tex'[dfb'["density"].read])
       ELSE /\ Bookkeep(TRUE, FALSE, {}, {})
            /\ UNCHANGED <<tex, dfb, massRef>>
    /\ UNCHANGED <<clearColor, mouse, frameCount, massStats, velDirty>>
    /\ CpuIdle /\ CanvasIdle

\* loop(): solver.splat(solver.velocity, mousePos.x, mousePos.y, dx, -dy, 0);
\* hasSplatted = true; then lastMousePos = mousePos
SplatVelocity ==
    /\ GpuOp("splatVelocity")
    /\ IF WillSplat
       THEN /\ splat("velocity", mouse.mousePos, <<MouseDelta[1], -MouseDelta[2]>>)
            /\ Bookkeep(TRUE, TRUE, {dfb["velocity"].read}, {dfb["velocity"].write})
            /\ mouse' = [mouse EXCEPT !.hasSplatted = TRUE, !.lastMousePos = mouse.mousePos]
       ELSE /\ Bookkeep(TRUE, FALSE, {}, {})
            /\ mouse' = [mouse EXCEPT !.lastMousePos = mouse.mousePos]
            /\ UNCHANGED <<tex, dfb>>
    /\ UNCHANGED <<clearColor, frameCount, massStats, frames, velDirty, massRef>>
    /\ CpuIdle /\ CanvasIdle

\* the texture the frame is drawn from: FluidSolverGPU.render or FluidDebugger.render
RenderSource ==
    CASE debugMode = "normal"     -> dfb["density"].read
      [] debugMode = "divergence" -> "divergence"
      [] debugMode = "velocity"   -> dfb["velocity"].read
      [] debugMode = "obstacles"  -> "obstacles"

\* a render() that clears the framebuffer updateBoundaries drew to instead of the screen
RenderClearsMask ==
    /\ GpuOp("render")
    /\ clearColor' = Zero2
    /\ tex' = [tex EXCEPT !["obstacles"] = ZeroField]
    /\ Bookkeep(TRUE, TRUE, {RenderSource}, {})
    /\ UNCHANGED <<dfb, mouse, frameCount, massStats, frames, velDirty, massRef>>
    /\ CpuIdle /\ CanvasIdle

\* a render() that swaps the density buffer after drawing, as the operator passes do
RenderSwapsDensity ==
    /\ GpuOp("render")
    /\ clearColor' = Zero2
    /\ dfb' = [dfb EXCEPT !["density"] = swap(dfb["density"])]
    /\ Bookkeep(TRUE, TRUE, {RenderSource}, {})
    /\ UNCHANGED <<tex, mouse, frameCount, massStats, frames, velDirty, massRef>>
    /\ CpuIdle /\ CanvasIdle

\* loop(): solver.render() or debugger.render(solver, debugMode);
\* both set gl.clearColor(0, 0, 0, 1) and draw to the screen
Render ==
    /\ GpuOp("render")
    /\ clearColor' = Zero2
    /\ Bookkeep(TRUE, TRUE, {RenderSource}, {})
    /\ UNCHANGED <<tex, dfb, mouse, frameCount, massStats, frames, velDirty, massRef>>
    /\ CpuIdle /\ CanvasIdle

\* loop(): frameCount++; every MassEvery-th frame setMassStats(measureMass(solver))
MeasureMass ==
    /\ GpuOp("measureMass")
    /\ frameCount' = frameCount + 1
    /\ IF (frameCount + 1) % MassEvery = 0
       THEN /\ massStats' = measureMass(tex[dfb["density"].read])
            /\ Bookkeep(TRUE, TRUE, {dfb["density"].read}, {})
       ELSE /\ massStats' = massStats
            /\ Bookkeep(TRUE, FALSE, {}, {})
    /\ UNCHANGED <<tex, dfb, clearColor, mouse, frames, velDirty, massRef>>
    /\ CpuIdle /\ CanvasIdle

\* updateBoundaries(top, bottom, left, right): clear to (0,0,0,0), then with
\* clearColor (1,0,0,1) clear one scissor box per enabled wall; the clear colour stays
updateBoundaries(b) ==
    /\ tex' = [tex EXCEPT !["obstacles"] = ObstacleMask(b)]
    /\ clearColor' = <<Q, 0>>
    /\ massRef' = measureMass(tex[dfb["density"].read])

\* the effects' calls solver.updateBoundaries(boundaries.top, ...)
UpdateBoundaries ==
    /\ GpuOp("updateBoundaries")
    /\ updateBoundaries(boundaries)
    /\ Bookkeep(TRUE, TRUE, {}, {"obstacles"})
    /\ UNCHANGED <<dfb, mouse, frameCount, massStats, frames, velDirty>>
    /\ CpuIdle /\ CanvasIdle

\* an input handler that may run while a callback is still executing
GpuEventAnytime == page = "gpu" /\ events' = events + 1

\* an input event is handled between animation frames
GpuEvent == page = "gpu" /\ Idle /\ events' = events + 1

\* a wall checkbox: setBoundaries({...boundaries, side: checked}), then the
\* [boundaries] effect calls updateBoundaries if (solverRef.current)
ToggleBoundary(side) ==
    /\ GpuEvent
    /\ boundaries' = [boundaries EXCEPT ![side] = ~boundaries[side]]
    /\ IF solver.status = "ready"
       THEN /\ updateBoundaries(boundaries')
            /\ lastPass' = [op |-> "updateBoundaries", stage |-> "updateBoundaries",
                            reads |-> {}, writes |-> {"obstacles"}]
       ELSE UNCHANGED <<tex, clearColor, massRef, lastPass>>
    /\ UNCHANGED <<page, pc, iter, dfb, debugMode, mouse, frameCount, massStats,
                   frames, stepOps, frameOps, velDirty>>
    /\ CpuIdle

FreshTextures == [t \in TexIds |-> ZeroField]
FreshBuffers == [f \in Fields |-> createDoubleFramebuffer(f)]

\* the debug select: setDebugMode(m); the [debugMode] effect cleans up and runs again,
\* constructing a new FluidSolverGPU on the same GL context
SetDebugMode(m) ==
    /\ GpuEvent
    /\ m # debugMode
    /\ debugMode' = m
    /\ tex' = FreshTextures
    /\ dfb' = FreshBuffers
    /\ pc' = IF solver.status = "ready" THEN <<"remount", 1>> ELSE pc
    /\ iter' = 0
    /\ massRef' = 0
    /\ velDirty' = ""
    /\ UNCHANGED <<page, clearColor, boundaries, mouse, frameCount, massStats,
                   frames, stepOps, frameOps, lastPass, arr>>
    /\ solver' = FluidSolverGPU_constructor(solver.env, GridW, GridH)

\* handlePointerDown
PointerDown(px, colour) ==
    /\ GpuEvent
    /\ mouse' = [isMouseDown |-> TRUE, mousePos |-> PointerPos(px),
                 lastMousePos |-> PointerPos(px), hasSplatted |-> FALSE, rgb |-> colour]
    /\ UNCHANGED <<page, pc, iter, tex, dfb, clearColor, boundaries, debugMode,
                   frameCount, massStats, frames, stepOps, frameOps, lastPass,
                   velDirty, massRef>>
    /\ CpuIdle

\* handlePointerMove: returns at once unless the pointer is down
PointerMove(px) ==
    /\ GpuEvent
    /\ mouse.isMouseDown
    /\ mouse' = [mouse EXCEPT !.mousePos = PointerPos(px), !.hasSplatted = FALSE]
    /\ UNCHANGED <<page, pc, iter, tex, dfb, clearColor, boundaries, debugMode,
                   frameCount, massStats, frames, stepOps, frameOps, lastPass,
                   velDirty, massRef>>
    /\ CpuIdle

\* handlePointerUp
PointerUp ==
    /\ GpuEvent
    /\ mouse.isMouseDown
    /\ mouse' = [mouse EXCEPT !.isMouseDown = FALSE, !.hasSplatted = FALSE]
    /\ UNCHANGED <<page, pc, iter, tex, dfb, clearColor, boundaries, debugMode,
                   frameCount, massStats, frames, stepOps, frameOps, lastPass,
                   velDirty, massRef>>
    /\ CpuIdle

---------------------------------------------------------------------------
(* FluidSolver (sequential solver): arrays of (GRID_RES + GRID_PADDING)^2 samples, *)
(* every sample held as value * Q                                                  *)

GRID_PADDING == 2
ITERATIONS == 20
CpuSize == GRID_RES + GRID_PADDING
ArrayNames == {"prev_density", "curr_density", "prev_velocityX", "curr_velocityX",
               "prev_velocityY", "curr_velocityY"}
ZeroArray == [i \in 0 .. CpuSize * CpuSize - 1 |-> 0]

idx2Dto1D(y, x) == x + y * CpuSize

\* the interior samples: rows and columns 1 .. GRID_RES
IsInterior(i) == (i \div CpuSize) \in 1 .. GRID_RES /\ (i % CpuSize) \in 1 .. GRID_RES

\* a set_bnd with the two sign rules exchanged (rows negate for b = 1, columns for
\* b = 2) that leaves the corners as they are
set_bndExchanged(b, x) ==
    LET maxIdx == CpuSize - 1
        Edge(row, col) ==
            IF row \in {0, maxIdx} /\ col \in 1 .. maxIdx - 1
            THEN LET n == x[idx2Dto1D(IF row = 0 THEN 1 ELSE maxIdx - 1, col)]
                 IN  IF b = 1 THEN -n ELSE n
            ELSE IF col \in {0, maxIdx} /\ row \in 1 .. maxIdx - 1
            THEN LET n == x[idx2Dto1D(row, IF col = 0 THEN 1 ELSE maxIdx - 1)]
                 IN  IF b = 2 THEN -n ELSE n
            ELSE x[idx2Dto1D(row, col)]
    IN  [i \in DOMAIN x |-> Edge(i \div CpuSize, i % CpuSize)]

\* set_bnd(b, x): edges copy (or negate) the adjacent interior sample, then the corners
set_bnd(b, x) ==
    LET maxIdx == CpuSize - 1
        Edge(row, col) ==
            IF row \in {0, maxIdx} /\ col \in 1 .. maxIdx - 1
            THEN LET n == x[idx2Dto1D(IF row = 0 THEN 1 ELSE maxIdx - 1, col)]
                 IN  IF b = 2 THEN -n ELSE n
            ELSE IF col \in {0, maxIdx} /\ row \in 1 .. maxIdx - 1
            THEN LET n == x[idx2Dto1D(row, IF col = 0 THEN 1 ELSE maxIdx - 1)]
                 IN  IF b = 1 THEN -n ELSE n
            ELSE x[idx2Dto1D(row, col)]
        e == [i \in DOMAIN x |-> Edge(i \div CpuSize, i % CpuSize)]
        Corner(row, col) ==
            Rnd(e[idx2Dto1D(IF row = 0 THEN 1 ELSE maxIdx - 1, col)]
                + e[idx2Dto1D(row, IF col = 0 THEN 1 ELSE maxIdx - 1)], 2)
    IN  [i \in DOMAIN x |->
            IF (i \div CpuSize) \in {0, maxIdx} /\ (i % CpuSize) \in {0, maxIdx}
            THEN Corner(i \div CpuSize, i % CpuSize) ELSE e[i]]

\* the interior cells <<row, col>> in the order of the nested for-loops
InteriorSeq ==
    [k \in 1 .. GRID_RES * GRID_RES |->
        <<((k - 1) \div GRID_RES) + 1, ((k - 1) % GRID_RES) + 1>>]

RECURSIVE Sweep(_, _, _, _, _, _)
\* one k-round of linSolve from cell number n on: each cell is overwritten in place
\* with (prev_val + a * (four neighbours of curr_val)) / c, a = aNum/den, c = cNum/den
Sweep(curr_val, prev_val, aNum, cNum, den, n) ==
    IF n > Len(InteriorSeq) THEN curr_val
    ELSE LET row == InteriorSeq[n][1]
             col == InteriorSeq[n][2]
             idx == idx2Dto1D(row, col)
             sum == curr_val[idx2Dto1D(row - 1, col)] + curr_val[idx2Dto1D(row + 1, col)]
                    + curr_val[idx2Dto1D(row, col - 1)] + curr_val[idx2Dto1D(row, col + 1)]
             v == Rnd(prev_val[idx] * den + aNum * sum, cNum)
         IN  Sweep([curr_val EXCEPT ![idx] = v], prev_val, aNum, cNum, den, n + 1)

\* linSolve(b, curr_val, prev_val, a, c): curr_val after round k of the for-loop;
\* set_bnd follows the last round
linSolve(b, curr_val, prev_val, aNum, cNum, den, k) ==
    LET swept == Sweep(curr_val, prev_val, aNum, cNum, den, 1)
    IN  IF k + 1 = ITERATIONS THEN set_bnd(b, swept) ELSE swept

\* diffuse(b, curr_val, prev_val, diff, dt): a = dt * diff * GRID_RES^2 with
\* dt = TIME_STEP = 1/10 and diff = visc = 1/10000; c = 1 + 4a
DiffDen == 100000
diffuse(b, curr_val, prev_val, k) ==
    linSolve(b, curr_val, prev_val, GRID_RES * GRID_RES,
             DiffDen + 4 * GRID_RES * GRID_RES, DiffDen, k)

\* step(TIME_STEP): dt as <<numerator, denominator>>
TIME_STEP == <<1, 10>>

\* a backtrace that is not clamped to the grid
advectPositionUnclamped(i, v, dt) == i * Q - Rnd(GRID_RES * v * dt[1], dt[2])

\* advect: x = col - dt0 * velocityX[idx] (y = row - dt0 * velocityY[idx]) with
\* dt0 = dt * GRID_RES, then Math.max(0.5, Math.min(x, GRID_RES + 0.5))
advectPosition(i, v, dt) ==
    Clamp(i * Q - Rnd(GRID_RES * v * dt[1], dt[2]), Q \div 2, GRID_RES * Q + Q \div 2)

\* advect(b, next_val, prev_val, velocityX, velocityY, dt): the new next_val
FluidSolver_advect(b, next_val, prev_val, velocityX, velocityY) ==
    LET Cell(row, col) ==
            LET idx == idx2Dto1D(row, col)
                x == advectPosition(col, velocityX[idx], TIME_STEP)
                y == advectPosition(row, velocityY[idx], TIME_STEP)
                i0 == x \div Q
                j0 == y \div Q
                s1 == x - i0 * Q
                t1 == y - j0 * Q
            IN  Rnd((Q - s1) * ((Q - t1) * prev_val[idx2Dto1D(j0, i0)]
                                + t1 * prev_val[idx2Dto1D(j0 + 1, i0)])
                    + s1 * ((Q - t1) * prev_val[idx2Dto1D(j0, i0 + 1)]
                            + t1 * prev_val[idx2Dto1D(j0 + 1, i0 + 1)]), Q * Q)
    IN  set_bnd(b, [i \in DOMAIN next_val |->
            IF IsInterior(i) THEN Cell(i \div CpuSize, i % CpuSize) ELSE next_val[i]])

\* project, first loop and the two set_bnd(0, .): the new div and p
ProjectDivergence(velocityX, velocityY, p, div) ==
    LET Div(row, col) ==
            Rnd(-(velocityY[idx2Dto1D(row + 1, col)] - velocityY[idx2Dto1D(row - 1, col)]
                  + velocityX[idx2Dto1D(row, col + 1)] - velocityX[idx2Dto1D(row, col - 1)]),
                2 * GRID_RES)
    IN  [div |-> set_bnd(0, [i \in DOMAIN div |->
                    IF IsInterior(i) THEN Div(i \div CpuSize, i % CpuSize) ELSE div[i]]),
         p |-> set_bnd(0, [i \in DOMAIN p |-> IF IsInterior(i) THEN 0 ELSE p[i]])]

\* project, last loop and set_bnd(1, velocityX), set_bnd(2, velocityY)
ProjectGradient(velocityX, velocityY, p) ==
    [velocityX |-> set_bnd(1, [i \in DOMAIN velocityX |->
            IF IsInterior(i)
            THEN velocityX[i] - Rnd(GRID_RES * (p[i + 1] - p[i - 1]), 2)
            ELSE velocityX[i]]),
     velocityY |-> set_bnd(2, [i \in DOMAIN velocityY |->
            IF IsInterior(i)
            THEN velocityY[i] - Rnd(GRID_RES * (p[i + CpuSize] - p[i - CpuSize]), 2)
            ELSE velocityY[i]])]

---------------------------------------------------------------------------
(* FluidSolver.step, FluidSolver.render and the FluidCanvas handlers *)

DENSITY_AMOUNT == 1
VELOCITY == [x |-> 15, y |-> 0]

CpuOp(names) == page = "cpu" /\ solver.status = "ready" /\ Cur.op \in names
GpuIdle == UNCHANGED <<tex, dfb, clearColor, boundaries, debugMode, mouse,
                       frameCount, massStats, velDirty, solver>>

\* the arguments step() passes at each of its calls
CpuArgs ==
    CASE Cur.op = "diffuseVelocityX" ->
            [b |-> 1, out |-> "prev_velocityX", src |-> "curr_velocityX"]
      [] Cur.op = "diffuseVelocityY" ->
            [b |-> 2, out |-> "prev_velocityY", src |-> "curr_velocityY"]
      [] Cur.op = "diffuseDensity" ->
            [b |-> 0, out |-> "prev_density", src |-> "curr_density"]
      [] Cur.op = "advectVelocityX" ->
            [b |-> 1, out |-> "curr_velocityX", src |-> "prev_velocityX",
             vx |-> "prev_velocityX", vy |-> "prev_velocityY"]
      [] Cur.op = "advectVelocityY" ->
            [b |-> 2, out |-> "curr_velocityY", src |-> "prev_velocityY",
             vx |-> "prev_velocityX", vy |-> "prev_velocityY"]
      [] Cur.op = "advectDensityCpu" ->
            [b |-> 0, out |-> "curr_density", src |-> "prev_density",
             vx |-> "curr_velocityX", vy |-> "curr_velocityY"]
      [] Cur.op \in {"projectPrevDivergence", "projectPrevSolve", "projectPrevGradient"} ->
            [vx |-> "prev_velocityX", vy |-> "prev_velocityY",
             p |-> "curr_velocityX", div |-> "curr_velocityY"]
      [] Cur.op \in {"projectCurrDivergence", "projectCurrSolve", "projectCurrGradient"} ->
            [vx |-> "curr_velocityX", vy |-> "curr_velocityY",
             p |-> "prev_velocityX", div |-> "prev_velocityY"]

\* step: round `iter` of the linSolve of this.diffuse(b, prev_*, curr_*, visc or diff, dt);
\* the first entry of step(): begins an animation frame
CpuDiffuse ==
    /\ CpuOp({"diffuseVelocityX", "diffuseVelocityY", "diffuseDensity"})
    /\ LET a == CpuArgs
       IN  /\ arr' = [arr EXCEPT ![a.out] = diffuse(a.b, arr[a.out], arr[a.src], iter)]
           /\ Bookkeep(iter + 1 = ITERATIONS, TRUE, {a.out, a.src}, {a.out})
    /\ frames' = IF pc[2] = 1 /\ iter = 0 THEN frames + 1 ELSE frames
    /\ UNCHANGED <<page, events, massRef>>
    /\ GpuIdle

\* step: this.advect(b, curr_*, prev_*, velocityX, velocityY, dt)
CpuAdvect ==
    /\ CpuOp({"advectVelocityX", "advectVelocityY", "advectDensityCpu"})
    /\ LET a == CpuArgs
       IN  /\ arr' = [arr EXCEPT ![a.out] =
                        FluidSolver_advect(a.b, arr[a.out], arr[a.src], arr[a.vx], arr[a.vy])]
           /\ Bookkeep(TRUE, TRUE, {a.out, a.src, a.vx, a.vy}, {a.out})
    /\ UNCHANGED <<page, events, frames, massRef>>
    /\ GpuIdle

\* project(velocityX, velocityY, p, div): divergence, p = 0, set_bnd of both
CpuProjectDivergence ==
    /\ CpuOp({"projectPrevDivergence", "projectCurrDivergence"})
    /\ LET a == CpuArgs
           r == ProjectDivergence(arr[a.vx], arr[a.vy], arr[a.p], arr[a.div])
       IN  /\ arr' = [arr EXCEPT ![a.p] = r.p, ![a.div] = r.div]
           /\ Bookkeep(TRUE, TRUE, {a.vx, a.vy, a.p, a.div}, {a.p, a.div})
    /\ UNCHANGED <<page, events, frames, massRef>>
    /\ GpuIdle

\* project: round `iter` of this.linSolve(0, p, div, 1, 4)
CpuProjectSolve ==
    /\ CpuOp({"projectPrevSolve", "projectCurrSolve"})
    /\ LET a == CpuArgs
       IN  /\ arr' = [arr EXCEPT ![a.p] = linSolve(0, arr[a.p], arr[a.div], 1, 4, 1, iter)]
           /\ Bookkeep(iter + 1 = ITERATIONS, TRUE, {a.p, a.div}, {a.p})
    /\ UNCHANGED <<page, events, frames, massRef>>
    /\ GpuIdle

\* project: subtract the pressure gradient in place, set_bnd of both components
CpuProjectGradient ==
    /\ CpuOp({"projectPrevGradient", "projectCurrGradient"})
    /\ LET a == CpuArgs
           r == ProjectGradient(arr[a.vx], arr[a.vy], arr[a.p])
       IN  /\ arr' = [arr EXCEPT ![a.vx] = r.velocityX, ![a.vy] = r.velocityY]
           /\ Bookkeep(TRUE, TRUE, {a.vx, a.vy, a.p}, {a.vx, a.vy})
    /\ UNCHANGED <<page, events, frames, massRef>>
    /\ GpuIdle

\* loop(): solverRef.current.render(ctx) reads curr_density into the canvas image
CpuRender ==
    /\ CpuOp({"renderCpu"})
    /\ Bookkeep(TRUE, TRUE, {"curr_density"}, {})
    /\ UNCHANGED <<page, arr, events, frames, massRef>>
    /\ GpuIdle

RECURSIVE SumArray(_, _)
SumArray(x, n) == IF n = 0 THEN 0 ELSE x[n - 1] + SumArray(x, n - 1)

\* an addDensity that forgets the padding offset
addDensityNoOffset(a, r, c, amount) ==
    [a EXCEPT !["curr_density"][idx2Dto1D(r, c)] = @ + amount * Q]

\* addDensity(r, c, amount)
addDensity(a, r, c, amount) ==
    [a EXCEPT !["curr_density"][idx2Dto1D(r + 1, c + 1)] = @ + amount * Q]

\* addVelocity(r, c, amountX, amountY)
addVelocity(a, r, c, amountX, amountY) ==
    [a EXCEPT !["curr_velocityX"][idx2Dto1D(r + 1, c + 1)] = @ + amountX * Q,
              !["curr_velocityY"][idx2Dto1D(r + 1, c + 1)] = @ + amountY * Q]

\* grid cells getGridCoordinates yields for pointers over the canvas content
CpuCells == (0 .. GRID_RES - 1) \X (0 .. GRID_RES - 1)

CpuEvent ==
    /\ page = "cpu" /\ Idle /\ events' = events + 1
    /\ UNCHANGED <<page, pc, iter, frames, stepOps, frameOps, lastPass>>
    /\ GpuIdle

\* handlePointerDown at grid cell g = <<x, y>>
CpuPointerDown(g) ==
    /\ CpuEvent
    /\ arr' = addVelocity(addDensity(arr, g[2], g[1], DENSITY_AMOUNT),
                          g[2], g[1], VELOCITY.x, VELOCITY.y)
    /\ massRef' = SumArray(arr'["curr_density"], CpuSize * CpuSize)

\* handlePointerMove at grid cell g with e.buttons = buttons: returns unless buttons = 1
CpuPointerMove(g, buttons) ==
    /\ CpuEvent
    /\ arr' = IF buttons # 1 THEN arr
              ELSE addVelocity(addDensity(arr, g[2], g[1], DENSITY_AMOUNT),
                               g[2], g[1], VELOCITY.x, VELOCITY.y)
    /\ massRef' = SumArray(arr'["curr_density"], CpuSize * CpuSize)

---------------------------------------------------------------------------

NoPass == [op |-> "none", stage |-> "none", reads |-> {}, writes |-> {}]

\* FluidCanvasGPU mounted: state defaults, and the [debugMode] effect has constructed
\* the solver (every texture allocated with null data) on a fresh GL context, or
\* has caught the constructor's exception and returned
InitGpu ==
    /\ page = "gpu"
    /\ \E env \in GlEnvironments : solver = FluidSolverGPU_constructor(env, GridW, GridH)
    /\ pc = IF solver.status = "ready" THEN <<"mount", 1>> ELSE <<"frame", 1>>
    /\ iter = 0
    /\ tex = FreshTextures
    /\ dfb = FreshBuffers
    /\ clearColor = Zero2
    /\ boundaries = [top |-> TRUE, bottom |-> TRUE, left |-> TRUE, right |-> TRUE]
    /\ debugMode = "normal"
    /\ mouse = [isMouseDown |-> FALSE, mousePos |-> Zero2, lastMousePos |-> Zero2,
                hasSplatted |-> FALSE, rgb |-> Zero2]
    /\ frameCount = 0
    /\ massStats = 0
    /\ arr = <<>>
    /\ events = 0
    /\ frames = 0
    /\ stepOps = <<>>
    /\ frameOps = <<>>
    /\ lastPass = NoPass
    /\ velDirty = ""
    /\ massRef = 0

\* FluidCanvas mounted with width = GRID_RES: the effect has constructed the solver
\* (six zeroed Float32Arrays) and calls loop() at once
InitCpu ==
    /\ page = "cpu"
    /\ solver = FluidSolver_constructor(GRID_RES)
    /\ pc = <<"cpumount", 1>>
    /\ iter = 0
    /\ arr = [n \in ArrayNames |-> ZeroArray]
    /\ tex = <<>>
    /\ dfb = <<>>
    /\ clearColor = Zero2
    /\ boundaries = <<>>
    /\ debugMode = "normal"
    /\ mouse = <<>>
    /\ frameCount = 0
    /\ massStats = 0
    /\ events = 0
    /\ frames = 0
    /\ stepOps = <<>>
    /\ frameOps = <<>>
    /\ lastPass = NoPass
    /\ velDirty = ""
    /\ massRef = 0

\* the user opens /gpu or /cpu
Init == InitGpu \/ InitCpu

\* the exploration stops after n input events / n animation frames
EventBudget(n) == events < n
FrameBudget(n) == Idle => frames < n

\* the passes of the parallel solver and of the FluidCanvasGPU loop
GpuPass ==
    \/ UpdateBoundaries
    \/ SplatVelocity
    \/ ComputeCurl
    \/ ApplyVorticity
    \/ EnforceBoundaries
    \/ AdvectVelocity
    \/ IterateVelocity
    \/ ComputeDivergence
    \/ ClearPressure
    \/ IteratePressure
    \/ SubtractPressureGradient
    \/ AdvectDensity
    \/ Render
    \/ MeasureMass

\* the calls of the sequential solver's loop after the first
CpuPass ==
    \/ CpuAdvect
    \/ CpuProjectDivergence
    \/ CpuProjectSolve
    \/ CpuProjectGradient
    \/ CpuRender

Next ==
    \/ GpuPass
    \/ CpuPass
    \/ FrameBudget(MaxFrames) /\ CpuDiffuse
    \/ \E g \in CpuCells : EventBudget(MaxEvents) /\ CpuPointerDown(g)
    \/ \E g \in CpuCells, buttons \in {0, 1} :
            EventBudget(MaxEvents) /\ CpuPointerMove(g, buttons)
    \/ FrameBudget(MaxFrames) /\ SplatDensity
    \/ \E side \in Sides : EventBudget(MaxEvents) /\ ToggleBoundary(side)
    \/ \E m \in DebugModes : EventBudget(MaxEvents) /\ SetDebugMode(m)
    \/ \E px \in PointerCells, colour \in Colours :
            EventBudget(MaxEvents) /\ PointerDown(px, colour)
    \/ \E px \in PointerCells : EventBudget(MaxEvents) /\ PointerMove(px)
    \/ EventBudget(MaxEvents) /\ PointerUp

Spec == Init /\ [][Next]_vars

\* loop() runs to completion: once a frame has begun, its passes follow one another
\* without waiting for anything
LoopPass ==
    \/ GpuPass
    \/ CpuPass
    \/ FrameBudget(MaxFrames) /\ CpuDiffuse
    \/ FrameBudget(MaxFrames) /\ SplatDensity

\* a short session in which the user stirs along one row, with the loop running on
NextRun ==
    \/ LoopPass
    \/ \E px \in {<<0, 1>>, <<1, 1>>} : EventBudget(MaxEvents) /\ PointerDown(px, <<DQ \div 2, 0>>)
    \/ \E px \in {<<0, 1>>, <<1, 1>>} : EventBudget(MaxEvents) /\ PointerMove(px)
    \/ EventBudget(1) /\ CpuPointerDown(<<0, 0>>)

SpecFair == Init /\ [][NextRun]_vars /\ WF_vars(LoopPass)

---------------------------------------------------------------------------
(* A longer session of the parallel path with a smaller input alphabet: the   *)
(* user opens the right wall and drags one dye colour along the second row    *)

DyeEvents == 4
DyeFrames == 3
DyeCells == {<<1, 1>>, <<2, 1>>, <<3, 1>>}
DyeColour == <<DQ \div 2, DQ \div 2>>

NextDye ==
    \/ GpuPass
    \/ FrameBudget(DyeFrames) /\ SplatDensity
    \/ EventBudget(DyeEvents) /\ ToggleBoundary("right")
    \/ \E px \in DyeCells : EventBudget(DyeEvents) /\ PointerDown(px, DyeColour)
    \/ \E px \in DyeCells : EventBudget(DyeEvents) /\ PointerMove(px)

SpecDye == InitGpu /\ [][NextDye]_vars

---------------------------------------------------------------------------
(* A long session: the user watches until shortly before the first mass readout  *)
(* (frame MassEvery), then stirs                                                 *)

LateInput == frames >= MassEvery - 2

NextLong ==
    \/ GpuPass
    \/ CpuPass
    \/ FrameBudget(MassEvery) /\ SplatDensity
    \/ FrameBudget(MassEvery) /\ CpuDiffuse
    \/ \E px \in DyeCells : LateInput /\ EventBudget(MaxEvents) /\ PointerDown(px, DyeColour)
    \/ \E px \in DyeCells : LateInput /\ EventBudget(MaxEvents) /\ PointerMove(px)
    \/ \E g \in CpuCells : LateInput /\ EventBudget(MaxEvents) /\ CpuPointerDown(g)

SpecLong == Init /\ [][NextLong]_vars

---------------------------------------------------------------------------
(* The constructors on their own: a caller constructs one solver with arguments *)
(* and a browser drawn from small sets                                          *)

MaxSpeed == 90     \* fastest stroke, in texels per second
MaxDim == 2
Dims == -MaxDim .. MaxDim

NotConstructed(kind, env, width, height) ==
    [kind |-> kind, env |-> env, width |-> width, height |-> height,
     status |-> "new", error |-> ""]

InitConstruct ==
    /\ page = "construct"
    /\ \/ \E env \in GlEnvironments, width \in Dims, height \in Dims :
             solver = NotConstructed("gpu", env, width, height)
       \/ \E resolution \in Dims :
             solver = NotConstructed("cpu", "ok", resolution, resolution)
    /\ pc = <<"construct", 1>>
    /\ iter = 0
    /\ tex = <<>>
    /\ dfb = <<>>
    /\ arr = <<>>
    /\ clearColor = Zero2
    /\ boundaries = <<>>
    /\ debugMode = "normal"
    /\ mouse = <<>>
    /\ frameCount = 0
    /\ massStats = 0
    /\ events = 0
    /\ frames = 0
    /\ stepOps = <<>>
    /\ frameOps = <<>>
    /\ lastPass = NoPass
    /\ velDirty = ""
    /\ massRef = 0

ConstructIdle ==
    UNCHANGED <<page, pc, iter, tex, dfb, clearColor, boundaries, debugMode, mouse,
                frameCount, massStats, arr, events, frames, stepOps, frameOps,
                lastPass, velDirty, massRef>>

\* new FluidSolverGPU(canvas, width, height)
ConstructGpu ==
    /\ page = "construct" /\ solver.kind = "gpu" /\ solver.status = "new"
    /\ solver' = FluidSolverGPU_constructor(solver.env, solver.width, solver.height)
    /\ ConstructIdle

\* new FluidSolver(resolution)
ConstructCpu ==
    /\ page = "construct" /\ solver.kind = "cpu" /\ solver.status = "new"
    /\ solver' = FluidSolver_constructor(solver.width)
    /\ ConstructIdle

NextConstruct == ConstructGpu \/ ConstructCpu

SpecConstruct == InitConstruct /\ [][NextConstruct]_vars

---------------------------------------------------------------------------
(* Properties *)

StepDone == lastPass.stage = "density-advect"

SpecOrder ==
    << "velocity-diffuse", "boundary-enforce", "velocity-advect", "boundary-enforce",
       "project", "boundary-enforce", "density-diffuse", "density-advect" >>
GpuOrder ==
    << "velocity-advect", "boundary-enforce", "velocity-diffuse", "boundary-enforce",
       "project", "boundary-enforce", "density-advect" >>
CpuOrder ==
    << "velocity-diffuse", "project", "velocity-advect", "project",
       "density-diffuse", "density-advect" >>

\* C1 as stated: when a step(dt) call of either solver has made its last call, the
\* operators it performed are, in order, velocity-diffuse, boundary-enforce,
\* velocity-advect, boundary-enforce, project, boundary-enforce, density-diffuse,
\* density-advect.
C1_StepOrderAsStated == StepDone => stepOps = SpecOrder

\* C1 amended: when a step(dt) call has made its last call, FluidSolverGPU.step has
\* performed velocity-advect (by the velocity itself), boundary-enforce,
\* velocity-diffuse, boundary-enforce, project, boundary-enforce, density-advect (by
\* the velocity) and no density-diffuse; FluidSolver.step has performed
\* velocity-diffuse, project, velocity-advect, project, density-diffuse, density-advect.
C1_StepOrder ==
    StepDone =>
        /\ stepOps = IF page = "gpu" THEN GpuOrder ELSE CpuOrder
        /\ page = "gpu" => dfb["velocity"].read \in lastPass.reads

\* a step of the parallel solver, run after user input, has completed
C1_Witness ==
    /\ page = "gpu" /\ StepDone /\ events > 0
    /\ stepOps = GpuOrder

\* the passes C2 lists: advect, relaxation, gradient subtraction, boundary
\* enforcement, vorticity, splat
OperatorPasses ==
    {"advectVelocity", "advectDensity", "iterateVelocity", "iteratePressure",
     "subtractPressureGradient", "enforceBoundaries", "applyVorticity",
     "splatDensity", "splatVelocity"}
CpuOperatorPasses ==
    {"diffuseVelocityX", "diffuseVelocityY", "diffuseDensity", "advectVelocityX",
     "advectVelocityY", "advectDensityCpu", "projectPrevSolve", "projectCurrSolve",
     "projectPrevGradient", "projectCurrGradient"}

\* C2 as stated: no operator pass of either solver both reads and writes the same
\* buffer.
C2_NoPassReadsItsOutput ==
    lastPass.op \in OperatorPasses \cup CpuOperatorPasses
        => lastPass.reads \cap lastPass.writes = {}

\* C2 amended: every operator pass of the parallel solver samples no buffer that is
\* the write buffer of a field, draws only to the write buffer of one field, changes
\* the contents of no other buffer, and samples no buffer it draws to.  (The
\* sequential solver's linSolve, gradient subtraction and set_bnd work in place.)
C2_PingPong ==
    [][(page = "gpu" /\ lastPass' # lastPass /\ lastPass'.op \in OperatorPasses) =>
        /\ lastPass'.reads \cap {dfb[f].write : f \in Fields} = {}
        /\ \E f \in Fields : lastPass'.writes = {dfb[f].write}
        /\ \A t \in TexIds : tex'[t] # tex[t] => t \in lastPass'.writes
        /\ lastPass'.reads \cap lastPass'.writes = {}]_vars

\* a relaxation pass of the parallel solver has drawn a non-zero velocity field
C2_Witness ==
    /\ page = "gpu"
    /\ lastPass.op = "iterateVelocity"
    /\ tex[dfb["velocity"].read] # ZeroField

\* the mask of the cell next to c in direction d is solid
SolidNeighbour(c, d) ==
    LET n == <<c[1] + d[1], c[2] + d[2]>>
    IN  n \in Cells /\ IsWall(tex["obstacles"][n])

\* field v obeys the no-penetration rule under the current mask
NoPenetration(v) ==
    \A c \in Cells :
        IF IsWall(tex["obstacles"][c]) THEN v[c] = Zero2
        ELSE /\ SolidNeighbour(c, <<-1, 0>>) => v[c][1] >= 0
             /\ SolidNeighbour(c, <<1, 0>>)  => v[c][1] <= 0
             /\ SolidNeighbour(c, <<0, -1>>) => v[c][2] >= 0
             /\ SolidNeighbour(c, <<0, 1>>)  => v[c][2] <= 0

\* dampings in [0, 1] the shader is checked with, in hundredths
Dampings == {0, 50, 98, 99, 100}

\* C3: right after an enforceBoundaries pass every fluid cell with a solid neighbour
\* has the velocity component into that neighbour equal to 0 (x >= 0 with a wall on
\* the left, x <= 0 on the right, y >= 0 below, y <= 0 above) and every solid cell
\* has velocity (0, 0); and the same holds for the boundary shader applied to any
\* velocity field of the run under any damping in [0, 1].
C3_NoPenetration ==
    page = "gpu" =>
        /\ lastPass.op = "enforceBoundaries" => NoPenetration(tex[dfb["velocity"].read])
        /\ \A damping \in Dampings, t \in {dfb["velocity"].read, dfb["velocity"].write} :
              NoPenetration([c \in Cells |->
                  BOUNDARY_SHADER(c, tex[t], tex["obstacles"], damping)])

\* an enforceBoundaries pass has just removed a velocity component that pointed into
\* a wall: its input (now the write buffer) had one, its output has none
C3_Witness ==
    /\ page = "gpu"
    /\ lastPass.op = "enforceBoundaries"
    /\ \E c \in Cells :
          /\ IsFluid(tex["obstacles"][c])
          /\ SolidNeighbour(c, <<-1, 0>>)
          /\ tex[dfb["velocity"].write][c][1] < 0
          /\ tex[dfb["velocity"].read][c][1] = 0

VelocityBuffers == {"velocity0", "velocity1"}

\* C4: in the parallel path no operator other than enforceBoundaries samples the
\* velocity while an earlier operator (velocity advection, velocity diffusion,
\* projection, vorticity confinement) has changed it with no enforceBoundaries
\* since, and no frame ends with such a change outstanding.
C4_EnforceAfterMutation ==
    /\ [](page = "gpu" /\ Idle => velDirty = "")
    /\ [][(page = "gpu" /\ lastPass' # lastPass
           /\ lastPass'.op \notin {"none", "enforceBoundaries"}
           /\ lastPass'.reads \cap VelocityBuffers # {})
          => velDirty \in {"", lastPass'.stage}]_vars

\* the enforceBoundaries after the viscosity loop has run on a moving fluid
C4_Witness ==
    /\ page = "gpu"
    /\ lastPass.op = "enforceBoundaries"
    /\ Cur.op = "computeDivergence"
    /\ velDirty = ""
    /\ tex[dfb["velocity"].write] # ZeroField

\* the most by which rounding to 1/DQ can raise the modelled total since the run
\* began: one unit per channel per cell per density advection
RoundingSlack == 2 * GridW * GridH * frames

\* C5: between animation frames the total density (measureMass of the density read
\* buffer) is not greater than it was after the last injection or mask change,
\* whatever steps ran since.
C5_MassNeverIncreases ==
    (page = "gpu" /\ Idle) =>
        measureMass(tex[dfb["density"].read]) <= massRef + RoundingSlack

\* C6: when the pressure relaxation of a project() call starts, the pressure read
\* buffer holds 0 in every cell.
C6_PressureStartsAtZero ==
    (page = "gpu" /\ Cur.op = "iteratePressure" /\ iter = 0)
        => tex[dfb["pressure"].read] = ZeroField

\* C7: two swaps of a double-buffer restore its read/write identity: for every
\* field swap(swap(d)) = d while swap(d) # d, and the pressure buffer, swapped only
\* by the rounds of the pressure loop, has its initial identity after every even
\* number of rounds and the exchanged one after every odd number.
C7_SwapTwice ==
    page = "gpu" =>
        /\ \A f \in Fields : swap(swap(dfb[f])) = dfb[f] /\ swap(dfb[f]) # dfb[f]
        /\ dfb["pressure"] =
              IF Cur.op = "iteratePressure" /\ iter % 2 = 1
              THEN swap(createDoubleFramebuffer("pressure"))
              ELSE createDoubleFramebuffer("pressure")

\* the pressure buffer has been swapped twice in the pressure loop, with data in it
C7_Witness ==
    /\ page = "gpu"
    /\ Cur.op = "iteratePressure" /\ iter = 2
    /\ tex[dfb["pressure"].read] # tex[dfb["pressure"].write]

\* C8: a step that changes which buffer is read and which is write (other than the
\* construction of a new solver) exchanges the two names of exactly one field,
\* leaves the names of the other fields alone, and changes the contents of no
\* buffer except the one the pass drew into before the swap: the former read buffer
\* keeps its contents as the new write buffer.
C8_SwapExchangesOnly ==
    [][(page = "gpu" /\ dfb' # dfb /\ debugMode' = debugMode) =>
        \E f \in Fields :
            /\ dfb'[f].read = dfb[f].write /\ dfb'[f].write = dfb[f].read
            /\ \A g \in Fields \ {f} : dfb'[g] = dfb[g]
            /\ \A t \in TexIds \ {dfb[f].write} : tex'[t] = tex[t]
            /\ tex'[dfb'[f].write] = tex[dfb[f].read]]_vars

\* the density buffers have been swapped after a pass that changed the dye
C8_Witness ==
    /\ page = "gpu"
    /\ lastPass.op = "advectDensity"
    /\ dfb["density"] = swap(createDoubleFramebuffer("density"))
    /\ tex[dfb["density"].read] # ZeroField
    /\ tex[dfb["density"].read] # tex[dfb["density"].write]

\* v * dissipation / 1000 for a two-channel sample
Dissipated(v, dissipation) == <<Rnd(v[1] * dissipation, 1000), Rnd(v[2] * dissipation, 1000)>>

\* the zero-velocity advection cases of the current state: the density advection
\* just performed if the velocity was zero everywhere (input = the write buffer after
\* the swap), and the advection shader applied with a zero velocity to every density
\* buffer (dissipation 0.999) and velocity buffer (dissipation 1.0) of the state
ZeroVelocityCases ==
    {<<tex[t], [c \in Cells |-> ADVECT_SHADER(c, ZeroField, tex[t], tex["obstacles"], 999)],
       999>> : t \in {"density0", "density1"}}
    \cup
    {<<tex[t], [c \in Cells |-> ADVECT_SHADER(c, ZeroField, tex[t], tex["obstacles"], 1000)],
       1000>> : t \in {"velocity0", "velocity1"}}
    \cup (IF lastPass.op = "advectDensity" /\ tex[dfb["velocity"].read] = ZeroField
          THEN {<<tex[dfb["density"].write], tex[dfb["density"].read], 999>>} ELSE {})

\* C9 as stated: advecting with a velocity that is zero at every cell leaves the
\* field unchanged at every cell, up to the dissipation factor.
C9_ZeroVelocityEveryCell ==
    page = "gpu" =>
        \A k \in ZeroVelocityCases : \A c \in Cells : k[2][c] = Dissipated(k[1][c], k[3])

\* C9 amended: advecting with a velocity that is zero at every cell leaves every
\* fluid cell unchanged up to the dissipation factor and writes 0 to every solid
\* cell; the sequential solver's advect with zero velocity arrays leaves every
\* interior sample of every array exactly unchanged.
C9_ZeroVelocityFluidCells ==
    /\ page = "gpu" =>
          \A k \in ZeroVelocityCases : \A c \in Cells :
              k[2][c] = IF IsWall(tex["obstacles"][c]) THEN Zero2
                        ELSE Dissipated(k[1][c], k[3])
    /\ page = "cpu" =>
          \A n \in ArrayNames, b \in {0, 1, 2} :
              LET out == FluidSolver_advect(b, ZeroArray, arr[n], ZeroArray, ZeroArray)
              IN  \A i \in DOMAIN out : IsInterior(i) => out[i] = arr[n][i]

\* a frame's density advection has run with dye in a fluid cell and no velocity
\* anywhere
C9_Witness ==
    /\ page = "gpu"
    /\ lastPass.op = "advectDensity"
    /\ tex[dfb["velocity"].read] = ZeroField
    /\ \E c \in Cells :
          /\ IsFluid(tex["obstacles"][c])
          /\ tex[dfb["density"].write][c] # Zero2
          /\ tex[dfb["density"].read][c] = Dissipated(tex[dfb["density"].write][c], 999)
          /\ tex[dfb["density"].read][c] # tex[dfb["density"].write][c]

\* C10: in every frame of the parallel path the velocity advection is preceded, in
\* this order and with nothing in between, by the curl computation, the vorticity
\* confinement and a boundary enforcement of the same frame, and the confinement
\* pass samples the velocity no advection of this frame has touched.
C10_ConfinementBeforeAdvection ==
    page = "gpu" =>
        /\ \A i \in 1 .. Len(frameOps) :
              frameOps[i] = "velocity-advect" =>
                  /\ i >= 4
                  /\ frameOps[i - 3] = "curl"
                  /\ frameOps[i - 2] = "vorticity-confinement"
                  /\ frameOps[i - 1] = "boundary-enforce"
        /\ lastPass.op = "applyVorticity" =>
              \A i \in 1 .. Len(frameOps) : frameOps[i] # "velocity-advect"

\* a frame after user input has reached its velocity advection on a moving fluid
C10_Witness ==
    /\ page = "gpu"
    /\ lastPass.op = "advectVelocity"
    /\ events > 0
    /\ tex[dfb["velocity"].read] # ZeroField

---------------------------------------------------------------------------
(* Atomicity of a step *)

\* a step() call has made at least one of its calls and has more to make
StepBegun ==
    /\ InStep(Cur)
    /\ \/ iter > 0
       \/ pc[2] > 1 /\ InStep(Program(pc[1])[pc[2] - 1])

\* the transition is an input handler, or one of loop()'s splats, or an effect's
\* updateBoundaries
ExternalCall ==
    \/ events' # events
    \/ Cur.op \in {"splatDensity", "splatVelocity", "updateBoundaries"}

\* C11: splat, addDensity, addVelocity, updateBoundaries and the pointer handlers
\* never execute between the first and the last call of a step: each runs only
\* while no step is in progress.
C11_StepAtomic == [][ExternalCall => ~StepBegun]_vars

\* an injection has just been applied between two steps: the splat of the second
\* animation frame, or an addDensity after the first step of the sequential solver
C11_Witness ==
    \/ page = "gpu" /\ frames = 2 /\ lastPass.op = "splatVelocity"
                    /\ tex[dfb["velocity"].read] # ZeroField
    \/ page = "cpu" /\ frames = 1 /\ Idle /\ events > 0
                    /\ arr["curr_velocityX"] # ZeroArray

---------------------------------------------------------------------------
(* The obstacle mask *)

\* C12: the obstacle mask of a solver is read-only during a step: no pass of step,
\* advect, iterate, project, enforceBoundaries, computeCurl, applyVorticity, splat or
\* render changes a mask cell; a mask cell changes only in an updateBoundaries call,
\* and that call is made while no step is in progress.
C12_MaskReadOnly ==
    [][(page = "gpu" /\ debugMode' = debugMode /\ tex'["obstacles"] # tex["obstacles"])
        => (ExternalCall /\ lastPass'.op = "updateBoundaries" /\ ~StepBegun)]_vars

\* a whole step has moved fluid the user stirred, and the walls are still as the
\* last updateBoundaries left them
C12_Witness ==
    /\ page = "gpu" /\ StepDone /\ events > 0
    /\ tex["obstacles"] = ObstacleMask(boundaries)
    /\ tex["obstacles"] # ZeroField
    /\ tex[dfb["velocity"].read] # ZeroField

\* the wall configurations of the four checkboxes
WallConfigs == [top : BOOLEAN, bottom : BOOLEAN, left : BOOLEAN, right : BOOLEAN]

\* cell c lies in the band of an enabled wall of configuration b
InWallBand(b, c) ==
    \/ b.top    /\ c[2] >= GridH - boundaryThickness
    \/ b.bottom /\ c[2] < boundaryThickness
    \/ b.left   /\ c[1] < boundaryThickness
    \/ b.right  /\ c[1] >= GridW - boundaryThickness

\* C13: after updateBoundaries(top, bottom, left, right) cell (x, y) of the mask is
\* solid (1) exactly when it lies in the band of an enabled wall and fluid (0)
\* otherwise, whatever the mask held before (for the configuration just applied to
\* the present solver, and for every other configuration); every mask value is
\* always 0 or 1.
C13_MaskIsWallBands ==
    page = "gpu" =>
        /\ \A c \in Cells : tex["obstacles"][c] \in {Zero2, <<Q, 0>>}
        /\ (lastPass.op = "updateBoundaries" /\ pc # <<"remount", 1>>) =>
              \A c \in Cells :
                  tex["obstacles"][c] = IF InWallBand(boundaries, c) THEN <<Q, 0>> ELSE Zero2
        /\ \A b \in WallConfigs : \A c \in Cells :
              ObstacleMask(b)[c] = IF InWallBand(b, c) THEN <<Q, 0>> ELSE Zero2

\* updateBoundaries has just rebuilt a mask that held a right wall into one without it
C13_Witness ==
    /\ page = "gpu" /\ events > 0
    /\ lastPass.op = "updateBoundaries"
    /\ ~boundaries.right /\ boundaries.left
    /\ tex["obstacles"][<<GridW - 1, 1>>] = Zero2
    /\ tex["obstacles"][<<0, 1>>] = <<Q, 0>>

---------------------------------------------------------------------------
(* Point injection of the sequential solver *)

\* amounts tried for addDensity and addVelocity (whole units)
InjectAmounts == {-3, 1, 15}

\* array a2 equals array a1 except that `delta` was added at index i
AddedAt(a2, a1, i, delta) ==
    \A k \in 0 .. CpuSize * CpuSize - 1 :
        a2[k] = a1[k] + (IF k = i THEN delta ELSE 0)

\* C14: addDensity(r, c, amount) with 0 <= r, c < N adds amount to exactly one
\* interior cell, row r+1 and column c+1 of curr_density, and addVelocity(r, c, dx, dy)
\* adds dx and dy to that cell of curr_velocityX and curr_velocityY; no other cell, no
\* padding cell and no other array changes.
C14_PointInjection ==
    page = "cpu" =>
        \A r \in 0 .. GRID_RES - 1, c \in 0 .. GRID_RES - 1 :
            LET i == idx2Dto1D(r + 1, c + 1)
            IN  /\ IsInterior(i)
                /\ i \div CpuSize = r + 1 /\ i % CpuSize = c + 1
                /\ \A amount \in InjectAmounts :
                      LET d == addDensity(arr, r, c, amount)
                      IN  /\ AddedAt(d["curr_density"], arr["curr_density"], i, amount * Q)
                          /\ \A n \in ArrayNames \ {"curr_density"} : d[n] = arr[n]
                /\ \A dx \in InjectAmounts, dy \in InjectAmounts :
                      LET v == addVelocity(arr, r, c, dx, dy)
                      IN  /\ AddedAt(v["curr_velocityX"], arr["curr_velocityX"], i, dx * Q)
                          /\ AddedAt(v["curr_velocityY"], arr["curr_velocityY"], i, dy * Q)
                          /\ \A n \in ArrayNames \ {"curr_velocityX", "curr_velocityY"} :
                                v[n] = arr[n]

\* after the first step handlePointerDown has injected at the last interior cell:
\* only that cell holds the added amounts
C14_Witness ==
    /\ page = "cpu" /\ Idle /\ events = 1 /\ frames = 1
    /\ arr["curr_density"][idx2Dto1D(GRID_RES, GRID_RES)] = DENSITY_AMOUNT * Q
    /\ arr["curr_velocityX"][idx2Dto1D(GRID_RES, GRID_RES)] = VELOCITY.x * Q
    /\ \A k \in 0 .. CpuSize * CpuSize - 1 :
          k # idx2Dto1D(GRID_RES, GRID_RES) => arr["curr_density"][k] = 0

---------------------------------------------------------------------------
(* Rendering and measuring *)

\* the transition is a render() or measureMass() call
RenderCall == events' = events /\ Cur.op \in {"render", "renderCpu", "measureMass"}

\* C15: render() and measureMass() only read: FluidSolverGPU.render and measureMass
\* read the density read buffer, FluidSolver.render reads curr_density, and none of
\* them changes a sample of any field or array or swaps a buffer.
C15_RenderReadOnly ==
    [][RenderCall =>
        /\ tex' = tex /\ dfb' = dfb /\ arr' = arr
        /\ lastPass'.writes = {}
        /\ (Cur.op = "renderCpu") => lastPass'.reads = {"curr_density"}
        /\ (Cur.op = "render" /\ debugMode = "normal")
              => lastPass'.reads = {dfb["density"].read}
        /\ (Cur.op = "measureMass" /\ lastPass'.op = "measureMass")
              => /\ lastPass'.reads = {dfb["density"].read}
                 /\ massStats' = measureMass(tex[dfb["density"].read])]_vars

\* the frame-MassEvery readout has measured dye that render() had just drawn
C15_Witness ==
    /\ page = "gpu" /\ lastPass.op = "measureMass"
    /\ frameCount = MassEvery
    /\ massStats > 0
    /\ massStats = measureMass(tex[dfb["density"].read])

---------------------------------------------------------------------------
(* Construction errors *)

\* C16: constructing a solver with a non-positive dimension is invalid: for
\* FluidSolver(resolution <= 0) and for FluidSolverGPU(width <= 0 or height <= 0) the
\* constructor throws an error and no solver instance results.
C16_NonPositiveDimensionThrows ==
    (page = "construct" /\ solver.status # "new"
        /\ (solver.width <= 0 \/ solver.height <= 0))
    => (solver.status = "error" /\ solver.error # "")

\* in a browser that supports everything, each constructor has thrown on a zero
\* or negative dimension, the parallel one on a framebuffer, the sequential one on
\* its ImageData
C16_Witness ==
    /\ page = "construct" /\ solver.env = "ok" /\ solver.status = "error"
    /\ \/ solver.kind = "gpu" /\ solver.width > 0 /\ solver.height = 0
             /\ solver.error = "Framebuffer incomplete"
       \/ solver.kind = "cpu" /\ solver.width < 0
             /\ solver.error = "RangeError"

\* C17: if WebGL2 or a required float extension is missing, or a shader fails to
\* compile or a program fails to link, the FluidSolverGPU constructor throws and the
\* solver never starts: no step, splat or render pass is ever executed, whatever the
\* user does afterwards.
C17_NoPartialPipeline ==
    (page = "gpu" /\ solver.env # "ok") =>
        /\ solver.status = "error" /\ solver.error # ""
        /\ frames = 0 /\ frameCount = 0
        /\ lastPass = NoPass /\ stepOps = <<>> /\ frameOps = <<>>
        /\ tex = FreshTextures /\ dfb = FreshBuffers

\* the last program failed to link; since then the user has pressed the pointer and
\* switched the debug view, and still nothing has run
C17_Witness ==
    /\ page = "gpu" /\ solver.env = "link boundary" /\ solver.status = "error"
    /\ events = 2 /\ mouse.isMouseDown /\ debugMode # "normal"
    /\ frames = 0

---------------------------------------------------------------------------
(* Projection *)

RECURSIVE MaxOver(_, _)
\* the largest f[c][1] in absolute value over the cells S
MaxOver(f, S) ==
    IF S = {} THEN 0
    ELSE LET c == CHOOSE x \in S : TRUE
         IN  Max(Abs(f[c][1]), MaxOver(f, S \ {c}))

\* the divergence texture computeDivergence would draw from the present velocity
DivergenceNow ==
    [c \in Cells |-> DIVERGENCE_SHADER(c, tex[dfb["velocity"].read], tex["obstacles"])]

\* the relaxation residual of project(): how much one more iterate() round would
\* still change the pressure
PressureResidual ==
    [c \in Cells |->
        VSub(ITERATE_SHADER(c, tex[dfb["pressure"].read], tex["divergence"],
                            tex["obstacles"], -1, 4, 1),
             tex[dfb["pressure"].read][c])]

\* the same two quantities for project(velocityX, velocityY, p, div) of FluidSolver
CpuDivergenceNow(velocityX, velocityY) ==
    [i \in 0 .. CpuSize * CpuSize - 1 |->
        IF IsInterior(i)
        THEN << Rnd(-(velocityY[i + CpuSize] - velocityY[i - CpuSize]
                      + velocityX[i + 1] - velocityX[i - 1]), 2 * GRID_RES), 0 >>
        ELSE Zero2]
CpuPressureResidual(p, div) ==
    [i \in 0 .. CpuSize * CpuSize - 1 |->
        IF IsInterior(i)
        THEN << Rnd(div[i] + p[i - 1] + p[i + 1] + p[i - CpuSize] + p[i + CpuSize], 4)
                - p[i], 0 >>
        ELSE Zero2]

\* C18: after project() the velocity is divergence-free up to the relaxation
\* residual: at every cell the absolute divergence of the projected velocity is at
\* most four times the largest change one more relaxation round would make to the
\* pressure, plus 4/Q for rounding.
C18_DivergenceFreeAfterProject ==
    /\ (page = "gpu" /\ lastPass.op = "subtractPressureGradient") =>
          MaxOver(DivergenceNow, Cells)
              <= 4 * MaxOver(PressureResidual, Cells) + 4
    /\ (page = "cpu" /\ lastPass.op = "projectPrevGradient") =>
          MaxOver(CpuDivergenceNow(arr["prev_velocityX"], arr["prev_velocityY"]),
                  0 .. CpuSize * CpuSize - 1)
              <= 4 * MaxOver(CpuPressureResidual(arr["curr_velocityX"], arr["curr_velocityY"]),
                             0 .. CpuSize * CpuSize - 1)
                 + 4
    /\ (page = "cpu" /\ lastPass.op = "projectCurrGradient") =>
          MaxOver(CpuDivergenceNow(arr["curr_velocityX"], arr["curr_velocityY"]),
                  0 .. CpuSize * CpuSize - 1)
              <= 4 * MaxOver(CpuPressureResidual(arr["prev_velocityX"], arr["prev_velocityY"]),
                             0 .. CpuSize * CpuSize - 1)
                 + 4

---------------------------------------------------------------------------
(* Advection alone: the solver stands before one of the two advect calls of     *)
(* step(), just after enforceBoundaries, with a fast stroke in the velocity     *)
(* field, dye all over the grid and any combination of walls                    *)

TraceSpeeds == {-MaxSpeed * Q, -(MaxSpeed \div 2) * Q, 0, (MaxSpeed \div 2) * Q, MaxSpeed * Q}

\* the positions of loop() at which step() calls advect
AdvectPositions ==
    {k \in 1 .. Len(LoopProgram) : LoopProgram[k].op \in {"advectVelocity", "advectDensity"}}

\* velocity `v` splatted at texel c0, as enforceBoundaries(0.99) leaves it under mask
StrokeVelocity(c0, v, mask) ==
    LET raw == [c \in Cells |-> IF c = c0 THEN v ELSE Zero2]
    IN  [c \in Cells |-> BOUNDARY_SHADER(c, raw, mask, 99)]

\* dye painted over the whole canvas, a different colour in every texel
PaintedDye == [c \in Cells |-> <<(c[1] + 1) * (DQ \div 8), (c[2] + 1) * (DQ \div 8)>>]

InitAdvect ==
    \E b \in [top : BOOLEAN, bottom : BOOLEAN, left : BOOLEAN, right : BOOLEAN],
       c0 \in Cells, v \in TraceSpeeds \X TraceSpeeds, k \in AdvectPositions :
        /\ page = "gpu"
        /\ solver = FluidSolverGPU_constructor("ok", GridW, GridH)
        /\ pc = <<"frame", k>>
        /\ iter = 0
        /\ boundaries = b
        /\ tex = [FreshTextures EXCEPT !["obstacles"] = ObstacleMask(b),
                                       !["velocity0"] = StrokeVelocity(c0, v, ObstacleMask(b)),
                                       !["density0"] = PaintedDye]
        /\ dfb = FreshBuffers
        /\ clearColor = Zero2
        /\ debugMode = "normal"
        /\ mouse = [isMouseDown |-> FALSE, mousePos |-> Zero2, lastMousePos |-> Zero2,
                    hasSplatted |-> FALSE, rgb |-> Zero2]
        /\ frameCount = 1
        /\ massStats = 0
        /\ arr = <<>>
        /\ events = 0
        /\ frames = 1
        /\ stepOps = <<>>
        /\ frameOps = <<>>
        /\ lastPass = NoPass
        /\ velDirty = ""
        /\ massRef = measureMass(PaintedDye)

NextAdvect == AdvectVelocity \/ AdvectDensity

SpecAdvect == InitAdvect /\ [][NextAdvect]_vars

---------------------------------------------------------------------------
(* One step() alone: the solver stands at the head of step(), after the           *)
(* enforceBoundaries of loop(), with a fast stroke in the velocity field, dye all *)
(* over the grid and any combination of walls, and runs the step to its end       *)

StrokeCells == {<<1, 1>>, <<2, 2>>, <<0, 2>>}
Strokes == {<<MaxSpeed * Q, 0>>, <<-MaxSpeed * Q, MaxSpeed * Q>>, <<0, -MaxSpeed * Q>>,
            <<(MaxSpeed \div 2) * Q, MaxSpeed * Q>>}

\* the position of loop() at which step() begins
StepPosition == CHOOSE k \in AdvectPositions : LoopProgram[k].op = "advectVelocity"

InitStep ==
    \E b \in [top : BOOLEAN, bottom : BOOLEAN, left : BOOLEAN, right : BOOLEAN],
       c0 \in StrokeCells, v \in Strokes :
        /\ page = "gpu"
        /\ solver = FluidSolverGPU_constructor("ok", GridW, GridH)
        /\ pc = <<"frame", StepPosition>>
        /\ iter = 0
        /\ boundaries = b
        /\ tex = [FreshTextures EXCEPT !["obstacles"] = ObstacleMask(b),
                                       !["velocity0"] = StrokeVelocity(c0, v, ObstacleMask(b)),
                                       !["density0"] = PaintedDye]
        /\ dfb = FreshBuffers
        /\ clearColor = Zero2
        /\ debugMode = "normal"
        /\ mouse = [isMouseDown |-> FALSE, mousePos |-> Zero2, lastMousePos |-> Zero2,
                    hasSplatted |-> FALSE, rgb |-> Zero2]
        /\ frameCount = 1
        /\ massStats = 0
        /\ arr = <<>>
        /\ events = 0
        /\ frames = 1
        /\ stepOps = <<>>
        /\ frameOps = <<>>
        /\ lastPass = NoPass
        /\ velDirty = ""
        /\ massRef = measureMass(PaintedDye)

\* the passes of FluidSolverGPU.step
NextStep ==
    \/ AdvectVelocity
    \/ EnforceBoundaries
    \/ IterateVelocity
    \/ ComputeDivergence
    \/ ClearPressure
    \/ IteratePressure
    \/ SubtractPressureGradient
    \/ AdvectDensity

SpecStep == InitStep /\ [][NextStep]_vars

---------------------------------------------------------------------------
(* The sampling point of advect *)

AdvectRan == page = "gpu" /\ lastPass.op \in {"advectVelocity", "advectDensity"}

\* after advect(output, velocity, ...) and output.swap(): the velocity field the pass
\* read, the source field it sampled, the field it drew and its dissipation
AdvectVelocityField ==
    IF lastPass.op = "advectVelocity" THEN tex[dfb["velocity"].write]
    ELSE tex[dfb["velocity"].read]
AdvectSource ==
    IF lastPass.op = "advectVelocity" THEN tex[dfb["velocity"].write]
    ELSE tex[dfb["density"].write]
AdvectTarget ==
    IF lastPass.op = "advectVelocity" THEN tex[dfb["velocity"].read]
    ELSE tex[dfb["density"].read]
AdvectDissipation == IF lastPass.op = "advectVelocity" THEN 1000 ELSE 999

\* the back-traced point of cell c: v_texCoord - velocity * dt * texelSize
BackTrace(c, u_velocity) ==
    LET velocity == TextureLinear(u_velocity, Centre(c))
    IN  VSub(Centre(c), <<Rnd(velocity[1], FPS), Rnd(velocity[2], FPS)>>)

\* the trace of cell c shortened by step factor i: the point at that fraction of
\* the way from the cell to its back-traced point
ShortenedTrace(c, u_velocity, i) ==
    LET delta == VSub(BackTrace(c, u_velocity), Centre(c))
    IN  VAdd(Centre(c), <<Rnd(delta[1] * StepFactorNum[i], StepFactorDen[i]),
                          Rnd(delta[2] * StepFactorNum[i], StepFactorDen[i])>>)

\* the sampling point by the rule: the back-traced point when fluid, else the first
\* fluid one of the five shortened trace points, else the cell's own position
RuleSamplePoint(c, u_velocity, u_obstacles) ==
    LET found == {i \in 1 .. 5 :
                    IsFluid(TextureNearest(u_obstacles, ShortenedTrace(c, u_velocity, i)))}
        first == CHOOSE i \in found : \A j \in found : i <= j
    IN  IF IsFluid(TextureNearest(u_obstacles, BackTrace(c, u_velocity)))
        THEN BackTrace(c, u_velocity)
        ELSE IF found # {} THEN ShortenedTrace(c, u_velocity, first)
        ELSE Centre(c)

\* the texel advect draws when it samples the source at point p
SampledAt(p) ==
    LET s == TextureLinear(AdvectSource, p)
    IN  <<Rnd(s[1] * AdvectDissipation, 1000), Rnd(s[2] * AdvectDissipation, 1000)>>

\* the point advect sampled for cell c lies in a fluid texel
SampledInFluid ==
    AdvectRan =>
        \A c \in Cells :
            IsFluid(tex["obstacles"][c]) =>
                IsFluid(TextureNearest(tex["obstacles"],
                                       AdvectCoord(c, AdvectVelocityField, tex["obstacles"])))

\* C19: for every fluid cell the point advect samples the source at is a fluid point,
\* chosen by the rule: the back-traced point if fluid, else the first fluid one of
\* at most 5 shortened trace points (step factors 0.9, 0.72, ...), else the cell's
\* own position; the texel drawn is the source sampled there.
C19_SamplesAtFluidPoint ==
    AdvectRan =>
        \A c \in Cells :
            IsFluid(tex["obstacles"][c]) =>
                LET p == RuleSamplePoint(c, AdvectVelocityField, tex["obstacles"])
                IN  /\ IsFluid(TextureNearest(tex["obstacles"], p))
                    /\ AdvectTarget[c] = SampledAt(p)

---------------------------------------------------------------------------
(* Solid cells under advect *)

\* C20: advect writes the zero value to every solid cell of the target field,
\* whatever the velocity, the trace, the dissipation and the cell's previous value.
C20_AdvectZeroesSolidCells ==
    AdvectRan =>
        \A c \in Cells : IsWall(tex["obstacles"][c]) => AdvectTarget[c] = Zero2

\* the density advect has zeroed a solid texel that held dye, with dissipation 0.999,
\* while a fluid cell carried a velocity whose back-trace ends in a wall
C20_Witness ==
    /\ AdvectRan /\ lastPass.op = "advectDensity"
    /\ \E c \in Cells :
          /\ IsWall(tex["obstacles"][c])
          /\ AdvectSource[c] # Zero2
          /\ AdvectTarget[c] = Zero2
    /\ \E c \in Cells :
          /\ IsFluid(tex["obstacles"][c])
          /\ AdvectVelocityField[c] # Zero2
          /\ IsWall(TextureNearest(tex["obstacles"], BackTrace(c, AdvectVelocityField)))

---------------------------------------------------------------------------
(* The relaxation pass *)

\* the call being executed is one relaxation pass (one iterate(), one k-round of linSolve)
GpuRelaxCall == page = "gpu" /\ events' = events
                /\ Cur.op \in {"iterateVelocity", "iteratePressure"}
CpuRelaxCall == page = "cpu" /\ events' = events
                /\ Cur.op \in {"diffuseVelocityX", "diffuseVelocityY", "diffuseDensity",
                               "projectPrevSolve", "projectCurrSolve"}

\* what the caller hands to iterate(x, b, alpha, beta): alpha = alphaNum / den,
\* beta = betaNum / den
IterateArgs ==
    IF Cur.op = "iterateVelocity"
    THEN [x |-> "velocity", b |-> dfb["velocity"].read,
          alphaNum |-> AlphaNum, betaNum |-> BetaNum, den |-> AlphaDen]
    ELSE [x |-> "pressure", b |-> "divergence", alphaNum |-> -1, betaNum |-> 4, den |-> 1]

\* what the caller hands to linSolve(b, curr_val, prev_val, a, c): a = aNum / den,
\* c = cNum / den
LinSolveArgs ==
    IF Cur.op \in {"projectPrevSolve", "projectCurrSolve"}
    THEN [x |-> CpuArgs.p, b |-> CpuArgs.div, aNum |-> 1, cNum |-> 4, den |-> 1]
    ELSE [x |-> CpuArgs.out, b |-> CpuArgs.src, aNum |-> GRID_RES * GRID_RES,
          cNum |-> DiffDen + 4 * GRID_RES * GRID_RES, den |-> DiffDen]

\* the sum of the four neighbours' current estimates at cell c of the parallel grid,
\* a solid neighbour counting as the centre
NeighbourSum(c, u_x, u_obstacles) ==
    LET p == Centre(c)
        N(q) == IF IsWall(TextureNearest(u_obstacles, q)) THEN TextureLinear(u_x, p)
                ELSE TextureLinear(u_x, q)
    IN  VAdd(VAdd(N(Left(p)), N(Right(p))), VAdd(N(Bottom(p)), N(Top(p))))

\* the same sum at interior sample i of the sequential grid during an in-place round:
\* the samples above and to the left have already been rewritten
CpuNeighbourSum(i, old, new) ==
    LET N(j) == IF IsInterior(j) /\ j < i THEN new[j] ELSE old[j]
    IN  N(i - CpuSize) + N(i + CpuSize) + N(i - 1) + N(i + 1)

\* the round of linSolve writes (b + a * neighbour sum) / c at every interior sample
LinSolveRound ==
    LET a == LinSolveArgs
    IN  \A i \in DOMAIN arr[a.x] :
            IsInterior(i) =>
                arr'[a.x][i] = Rnd(arr[a.b][i] * a.den
                                   + a.aNum * CpuNeighbourSum(i, arr[a.x], arr'[a.x]), a.cNum)

---------------------------------------------------------------------------
(* Solid neighbours in the stencil passes *)

\* the texels next to c (texture coordinates clamp at the edge of the grid)
Neighbours4(c) ==
    {<<Clamp(c[1] + d[1], 0, GridW - 1), Clamp(c[2] + d[2], 0, GridH - 1)>> :
        d \in {<<-1, 0>>, <<1, 0>>, <<0, -1>>, <<0, 1>>}}

SolidNeighbours(c) == {s \in Neighbours4(c) : IsWall(tex["obstacles"][s])}

\* field f with another value stored in texel s
Restored(f, s, d) == [f EXCEPT ![s] = VAdd(f[s], d)]

OtherValues == {<<Q, -3 * Q>>}

\* C22: in iterate, divergence and gradient subtraction the value written to a fluid
\* cell does not depend on the value stored in any solid 4-neighbour: changing the
\* value stored in a solid neighbour of the input fields leaves the output at the cell
\* unchanged.
C22_SolidNeighboursIgnored ==
    (page = "gpu" /\ solver.status = "ready") =>
        \A c \in Cells :
            IsFluid(tex["obstacles"][c]) =>
                \A s \in SolidNeighbours(c), d \in OtherValues :
                    LET o == tex["obstacles"]
                        v == tex[dfb["velocity"].read]
                        p == tex[dfb["pressure"].read]
                        b == tex["divergence"]
                    IN  /\ ITERATE_SHADER(c, Restored(p, s, d), Restored(b, s, d), o, -1, 4, 1)
                           = ITERATE_SHADER(c, p, b, o, -1, 4, 1)
                        /\ ITERATE_SHADER(c, Restored(v, s, d), Restored(v, s, d), o,
                                          AlphaNum, BetaNum, AlphaDen)
                           = ITERATE_SHADER(c, v, v, o, AlphaNum, BetaNum, AlphaDen)
                        /\ DIVERGENCE_SHADER(c, Restored(v, s, d), o)
                           = DIVERGENCE_SHADER(c, v, o)
                        /\ GRADIENT_SUBTRACT_SHADER(c, Restored(v, s, d), Restored(p, s, d), o)
                           = GRADIENT_SUBTRACT_SHADER(c, v, p, o)

\* subtractPressureGradient has drawn a moving fluid cell whose solid neighbour stores
\* a pressure different from the cell's own
C22_Witness ==
    /\ page = "gpu" /\ lastPass.op = "subtractPressureGradient"
    /\ \E c \in Cells :
          /\ IsFluid(tex["obstacles"][c])
          /\ tex[dfb["velocity"].read][c] # Zero2
          /\ \E s \in SolidNeighbours(c) :
                /\ tex[dfb["pressure"].read][s] # Zero2
                /\ tex[dfb["pressure"].read][s] # tex[dfb["pressure"].read][c]

---------------------------------------------------------------------------
(* The divergence pass *)

\* component k of the velocity stored d texels away from c, 0 when that texel is solid
FluidVelocity(c, d, k) ==
    LET s == <<Clamp(c[1] + d[1], 0, GridW - 1), Clamp(c[2] + d[2], 0, GridH - 1)>>
    IN  IF IsWall(tex["obstacles"][s]) THEN 0 ELSE tex[dfb["velocity"].read][s][k]

\* C23: the divergence pass writes, for each fluid cell,
\* 0.5 * ((vx_right - vx_left) + (vy_top - vy_bottom)) with the velocity component of
\* every solid neighbour replaced by 0, and 0 for every solid cell.
C23_DivergencePass ==
    (page = "gpu" /\ lastPass.op = "computeDivergence") =>
        \A c \in Cells :
            tex["divergence"][c] =
                IF IsWall(tex["obstacles"][c]) THEN Zero2
                ELSE << Rnd((FluidVelocity(c, <<1, 0>>, 1) - FluidVelocity(c, <<-1, 0>>, 1))
                            + (FluidVelocity(c, <<0, 1>>, 2) - FluidVelocity(c, <<0, -1>>, 2)),
                            2), 0 >>

\* computeDivergence has drawn a non-zero divergence at a fluid cell next to a wall
C23_Witness ==
    /\ page = "gpu" /\ lastPass.op = "computeDivergence"
    /\ \E c \in Cells :
          /\ IsFluid(tex["obstacles"][c])
          /\ SolidNeighbours(c) # {}
          /\ tex["divergence"][c] # Zero2

---------------------------------------------------------------------------
(* The passes of project *)

\* the transition is a pass of loop(), not an input handler
PassStep == events' = events /\ (pc' # pc \/ iter' # iter)

InProject == Cur.fn = "project"

\* iterations handed to the relaxation loop being executed
ProjectRounds == IF page = "gpu" THEN ProjectIterations ELSE ITERATIONS

DivergenceOps == {"computeDivergence", "projectPrevDivergence", "projectCurrDivergence"}
RelaxOps == {"iteratePressure", "projectPrevSolve", "projectCurrSolve"}
GradientOps == {"subtractPressureGradient", "projectPrevGradient", "projectCurrGradient"}

\* the relaxation loop of project opens with round 0, right after the divergence pass
\* (and, in the parallel solver, the clear of the pressure buffer)
EntersRelaxation ==
    /\ Cur'.op \in RelaxOps /\ iter' = 0
    /\ page = "gpu" => dfb' = dfb

\* C24: every project(n) performs exactly one divergence pass, then exactly n
\* relaxation passes on the pressure (each followed by one pressure swap in the
\* parallel solver), then exactly one gradient subtraction, in that order, with
\* n = 50 in the parallel step and 20 in the sequential solver whatever the fields
\* hold; project and step always terminate.
C24_ProjectPasses ==
    /\ [][PassStep =>
            /\ Cur.op \in DivergenceOps =>
                  IF page = "gpu" THEN Cur'.op = "clearPressure" /\ iter' = 0
                  ELSE EntersRelaxation
            /\ Cur.op = "clearPressure" => EntersRelaxation
            /\ Cur.op \in RelaxOps =>
                  /\ iter < ProjectRounds
                  /\ page = "gpu" => dfb' = [dfb EXCEPT !["pressure"] = swap(dfb["pressure"])]
                  /\ IF iter + 1 < ProjectRounds
                     THEN Cur' = Cur /\ iter' = iter + 1
                     ELSE Cur'.op \in GradientOps /\ iter' = 0
            /\ Cur.op \in GradientOps => ~InProject' /\ iter' = 0
            /\ (InProject' /\ ~InProject) => Cur'.op \in DivergenceOps
            /\ (Cur'.op \in GradientOps) => Cur.op \in RelaxOps]_vars
    /\ (StepBegun ~> ~StepBegun)

\* a project(50) has finished with its gradient subtraction on a moving fluid
C24_Witness ==
    /\ page = "gpu" /\ lastPass.op = "subtractPressureGradient"
    /\ ~InProject
    /\ tex["divergence"] # ZeroField
    /\ tex[dfb["velocity"].read] # ZeroField

---------------------------------------------------------------------------
(* set_bnd *)

\* y is x with the boundary samples as C25 describes them for field type b
BoundaryRule(b, x, y) ==
    LET maxIdx == CpuSize - 1
        Inner(k) == IF k = 0 THEN 1 ELSE maxIdx - 1
    IN  \A row \in 0 .. maxIdx, col \in 0 .. maxIdx :
            LET i == idx2Dto1D(row, col)
                onRow == row \in {0, maxIdx}
                onCol == col \in {0, maxIdx}
            IN  /\ (~onRow /\ ~onCol) => y[i] = x[i]
                /\ (onRow /\ ~onCol) =>
                      y[i] = IF b = 2 THEN -x[idx2Dto1D(Inner(row), col)]
                             ELSE x[idx2Dto1D(Inner(row), col)]
                /\ (onCol /\ ~onRow) =>
                      y[i] = IF b = 1 THEN -x[idx2Dto1D(row, Inner(col))]
                             ELSE x[idx2Dto1D(row, Inner(col))]
                /\ (onRow /\ onCol) =>
                      y[i] = Rnd(y[idx2Dto1D(Inner(row), col)] + y[idx2Dto1D(row, Inner(col))], 2)

\* C25: after set_bnd(b, x) every non-corner edge sample equals the adjacent interior
\* sample, negated exactly when b = 1 on the left/right columns or b = 2 on the
\* top/bottom rows; each corner is the average of its two edge neighbours; no interior
\* sample is changed; and a second set_bnd changes nothing.
C25_SetBnd ==
    page = "cpu" =>
        \A b \in 0 .. 2, n \in ArrayNames :
            LET y == set_bnd(b, arr[n])
            IN  /\ BoundaryRule(b, arr[n], y)
                /\ set_bnd(b, y) = y

\* advect has just ended with set_bnd(1, curr_velocityX) on a moving fluid: a left
\* column sample is the negative of its non-zero interior neighbour, and set_bnd with
\* another b would change the array
C25_Witness ==
    /\ page = "cpu" /\ lastPass.op = "advectVelocityX"
    /\ \E row \in 1 .. GRID_RES :
          /\ arr["curr_velocityX"][idx2Dto1D(row, 1)] # 0
          /\ arr["curr_velocityX"][idx2Dto1D(row, 0)] = -arr["curr_velocityX"][idx2Dto1D(row, 1)]
    /\ set_bnd(1, arr["curr_velocityX"]) = arr["curr_velocityX"]
    /\ set_bnd(2, arr["curr_velocityX"]) # arr["curr_velocityX"]

---------------------------------------------------------------------------
(* The source field of the velocity diffusion *)

\* C26: within the velocity-diffusion solve of one parallel step all 20 relaxation
\* passes use the same source field b, the velocity as it was before the first pass:
\* from the second pass on, the texture bound as u_b holds what the previous pass
\* found in its u_b (which the swap has left in the write buffer).
C26_DiffusionSourceFixed ==
    [][(GpuRelaxCall /\ Cur.op = "iterateVelocity" /\ iter >= 1) =>
            tex[IterateArgs.b] = tex[dfb["velocity"].write]]_vars

---------------------------------------------------------------------------
(* The fields at the end of a step *)

\* C27: at the end of every FluidSolverGPU.step the velocity read buffer and the
\* density read buffer hold zero in every solid cell, and the velocity that advected
\* the density (still the velocity read buffer) has no component pointing into a
\* solid neighbour at any fluid cell.
C27_EndOfStep ==
    (page = "gpu" /\ StepDone /\ lastPass.op = "advectDensity") =>
        /\ \A c \in Cells :
              IsWall(tex["obstacles"][c]) =>
                  /\ tex[dfb["velocity"].read][c] = Zero2
                  /\ tex[dfb["density"].read][c] = Zero2
        /\ \A c \in Cells :
              LET v == tex[dfb["velocity"].read][c]
                  p == Centre(c)
                  Solid(q) == IsWall(TextureNearest(tex["obstacles"], q))
              IN  IsFluid(tex["obstacles"][c]) =>
                      /\ Solid(Left(p))   => v[1] >= 0
                      /\ Solid(Right(p))  => v[1] <= 0
                      /\ Solid(Bottom(p)) => v[2] >= 0
                      /\ Solid(Top(p))    => v[2] <= 0

\* a step has ended on a grid with a wall, with the fluid still moving next to the
\* wall and dye left in the fluid, after the density advect emptied dyed solid cells
C27_Witness ==
    /\ page = "gpu" /\ StepDone /\ lastPass.op = "advectDensity"
    /\ \E c \in Cells :
          /\ IsFluid(tex["obstacles"][c])
          /\ SolidNeighbours(c) # {}
          /\ tex[dfb["velocity"].read][c] # Zero2
          /\ tex[dfb["density"].read][c] # Zero2
    /\ \E c \in Cells :
          /\ IsWall(tex["obstacles"][c])
          /\ tex[dfb["density"].write][c] # Zero2


---------------------------------------------------------------------------
(* The double-buffered fields *)

\* the two framebuffers createDoubleFramebuffer allocated for field f
Pair(f) == {createDoubleFramebuffer(f).read, createDoubleFramebuffer(f).write}

\* read and write of every field are the field's own two buffers, one each
BuffersIntact ==
    \A f \in Fields :
        /\ dfb[f].read # dfb[f].write
        /\ {dfb[f].read, dfb[f].write} = Pair(f)
        /\ \A g \in Fields \ {f} : Pair(f) \cap Pair(g) = {}

\* the step is one pass of the constructed solver (not the construction of a new one)
SolverPass ==
    /\ page = "gpu" /\ page' = "gpu"
    /\ debugMode' = debugMode
    /\ <<pc, iter>>' # <<pc, iter>>
    /\ lastPass'.op \notin {"none", "updateBoundaries"}

\* C28: for velocity, density and pressure, after any sequence of passes read and
\* write are two distinct buffers, they are the two buffers allocated for the field at
\* construction, no buffer belongs to two fields, and every pass that writes a buffer
\* of a field leaves that buffer as the field's read buffer, while a pass that writes
\* no buffer of the field leaves the field's pair as it was: read is the buffer the
\* most recent pass on the field wrote
C28_DoubleBuffers ==
    /\ [](page = "gpu" => BuffersIntact)
    /\ [][SolverPass =>
            \A f \in Fields :
                IF lastPass'.writes \cap Pair(f) # {}
                THEN lastPass'.writes = {dfb'[f].read}
                ELSE dfb'[f] = dfb[f]]_vars

\* a pressure relaxation has just drawn into pressure1, which is now pressure.read,
\* while velocity.read is the second buffer of the velocity pair
C28_Witness ==
    /\ page = "gpu"
    /\ lastPass.op = "iteratePressure"
    /\ lastPass.writes = {"pressure1"}
    /\ dfb["pressure"] = [read |-> "pressure1", write |-> "pressure0"]
    /\ dfb["velocity"].read = "velocity1"


---------------------------------------------------------------------------
(* The array accesses of the sequential solver *)

\* the time steps advect is examined with, as <<numerator, denominator>>:
\* none, TIME_STEP, its negative, and two that carry every sample far off the grid
TimeSteps == {<<0, 1>>, TIME_STEP, <<-1, 10>>, <<1000, 1>>, <<-1000, 1>>}

\* <<row, col>> lies inside the (GRID_RES + GRID_PADDING)^2 array x
InArray(x, rc) ==
    /\ rc[1] \in 0 .. GRID_RES + 1
    /\ rc[2] \in 0 .. GRID_RES + 1
    /\ idx2Dto1D(rc[1], rc[2]) \in DOMAIN x

Interior == (1 .. GRID_RES) \X (1 .. GRID_RES)

\* advect: the four cells the bilinear interpolation of interior cell rc reads
advectSamples(rc, velocityX, velocityY, dt) ==
    LET idx == idx2Dto1D(rc[1], rc[2])
        i0 == advectPosition(rc[2], velocityX[idx], dt) \div Q
        j0 == advectPosition(rc[1], velocityY[idx], dt) \div Q
    IN  {<<j0, i0>>, <<j0 + 1, i0>>, <<j0, i0 + 1>>, <<j0 + 1, i0 + 1>>}

\* linSolve and the two loops of project: cell rc and its four neighbours
StencilCells(rc) ==
    {rc, <<rc[1] - 1, rc[2]>>, <<rc[1] + 1, rc[2]>>, <<rc[1], rc[2] - 1>>, <<rc[1], rc[2] + 1>>}

\* set_bnd: the edge samples written, the interior samples next to them, the corners
\* and the two edge samples each corner reads
set_bndCells ==
    LET maxIdx == GRID_RES + GRID_PADDING - 1
    IN  UNION {{<<row, col>>, <<IF row = 0 THEN 1 ELSE maxIdx - 1, col>>,
                <<col, row>>, <<col, IF row = 0 THEN 1 ELSE maxIdx - 1>>} :
               <<row, col>> \in {0, maxIdx} \X (1 .. maxIdx - 1)}
        \cup UNION {{<<r, c>>, <<IF r = 0 THEN 1 ELSE maxIdx - 1, c>>,
                     <<r, IF c = 0 THEN 1 ELSE maxIdx - 1>>} :
                    <<r, c>> \in {0, maxIdx} \X {0, maxIdx}}

\* the backtrace of some interior cell leaves [0.5, GRID_RES + 0.5] before the clamp
TracedOffGrid(velocity, dt) ==
    \E rc \in Interior, k \in 1 .. 2 :
        LET raw == rc[k] * Q - Rnd(GRID_RES * velocity[idx2Dto1D(rc[1], rc[2])] * dt[1], dt[2])
        IN  raw < Q \div 2 \/ raw > GRID_RES * Q + Q \div 2

\* C29: in the sequential solver every array access of advect, linSolve, project and
\* set_bnd lies inside the (GRID_RES + 2) x (GRID_RES + 2) array, whatever the
\* velocities held in the arrays and whatever dt: the backtraced position is in
\* [0.5, GRID_RES + 0.5] on both axes and the four bilinear sample cells have row and
\* column in 0 .. GRID_RES + 1
C29_AccessesInsideArray ==
    page = "cpu" =>
        /\ \A x \in ArrayNames :
            /\ \A rc \in Interior : \A n \in StencilCells(rc) : InArray(arr[x], n)
            /\ \A n \in set_bndCells : InArray(arr[x], n)
        /\ \A vx \in ArrayNames, vy \in ArrayNames, dt \in TimeSteps, rc \in Interior :
            /\ InArray(arr[vx], rc) /\ InArray(arr[vy], rc)
            /\ \A k \in 1 .. 2 :
                LET pos == advectPosition(rc[k], arr[IF k = 1 THEN vy ELSE vx]
                                                   [idx2Dto1D(rc[1], rc[2])], dt)
                IN  pos >= Q \div 2 /\ pos <= GRID_RES * Q + Q \div 2
            /\ \A n \in advectSamples(rc, arr[vx], arr[vy], dt) : InArray(arr[vx], n)

\* advectVelocityX has run with a velocity whose backtrace, at dt = TIME_STEP, left
\* the grid and was clamped
C29_Witness ==
    /\ page = "cpu"
    /\ lastPass.op = "advectVelocityX"
    /\ TracedOffGrid(arr["prev_velocityX"], TIME_STEP)


---------------------------------------------------------------------------
(* curr_* and prev_* of the sequential solver *)

CurrArrays == {"curr_density", "curr_velocityX", "curr_velocityY"}
PrevArrays == ArrayNames \ CurrArrays

\* step(): the call that reads each curr_* array first
FirstReader ==
    [curr_velocityX |-> "diffuseVelocityX", curr_velocityY |-> "diffuseVelocityY",
     curr_density |-> "diffuseDensity"]

\* the step is one pass of step() or render(), not a pointer handler
CpuStepCall == page = "cpu" /\ events' = events /\ <<pc, iter>>' # <<pc, iter>>

\* the running callback has already made the call that reads x first
ReadEarlier(x) == \E j \in 1 .. pc[2] - 1 : Program(pc[1])[j].op = FirstReader[x]

\* C30: in the sequential solver the curr_* arrays are the state between steps: the
\* pointer handlers write curr_* only; in every step each curr_* array is read by its
\* diffuse call, unchanged, before any call of the step writes it; the last velocity
\* written in a step is written by the second project into curr_velocityX and
\* curr_velocityY, the last density by advect into curr_density (from prev_density
\* and the curr_* velocity), no later call changes them, and render reads
\* curr_density only and changes nothing; the prev_* arrays are never the target of a
\* handler nor the source of render
C30_CurrIsTheState ==
    [][/\ (page = "cpu" /\ events' # events) => \A x \in PrevArrays : arr'[x] = arr[x]
       /\ CpuStepCall =>
            /\ \A x \in CurrArrays :
                /\ (x \in lastPass'.writes \/ arr'[x] # arr[x]) => ReadEarlier(x)
                /\ Cur.op = FirstReader[x] =>
                        x \in lastPass'.reads /\ x \notin lastPass'.writes
            /\ Cur.op = "projectCurrGradient" =>
                    lastPass'.writes = {"curr_velocityX", "curr_velocityY"}
            /\ Cur.op = "advectDensityCpu" =>
                    /\ lastPass'.writes = {"curr_density"}
                    /\ arr'["curr_density"] =
                        FluidSolver_advect(0, arr["curr_density"], arr["prev_density"],
                                           arr["curr_velocityX"], arr["curr_velocityY"])
            /\ Cur.op \in {"diffuseDensity", "advectDensityCpu", "renderCpu"} =>
                    /\ arr'["curr_velocityX"] = arr["curr_velocityX"]
                    /\ arr'["curr_velocityY"] = arr["curr_velocityY"]
            /\ Cur.op = "renderCpu" => arr' = arr /\ lastPass'.reads = {"curr_density"}]_vars

\* a frame that followed a pointer event has been rendered: the injected density and
\* velocity went through a whole step and are in curr_*, which differ from prev_*
C30_Witness ==
    /\ page = "cpu"
    /\ events > 0
    /\ lastPass.op = "renderCpu"
    /\ arr["curr_density"] # ZeroArray
    /\ arr["curr_velocityX"] # ZeroArray
    /\ arr["prev_density"] # arr["curr_density"]
    /\ arr["prev_velocityX"] # arr["curr_velocityX"]

====
